---- MODULE Spec2Model ----
(***************************************************************************)
(* A model of the built-in command library of the custom shell             *)
(* (src/src/commands.cpp) and of its interaction loop (src/src/shell.cpp). *)
(*                                                                         *)
(* Strings are sequences of one-character strings, so that indexing,       *)
(* find, substr and the numeric conversions are computed as the code       *)
(* computes them.  The filesystem is a function from absolute paths        *)
(* (sequences of names) to nodes.  Every handler is a small state machine: *)
(* its position is pc, its locals are the record loc, its return value is  *)
(* result.  One specification per command family draws the arguments and  *)
(* the filesystem from bounded sets.                                       *)
(***************************************************************************)
EXTENDS Integers, Sequences, FiniteSets, TLC

VARIABLES
    cmd,     \* the handler being run
    args,    \* its argument vector (const std::vector<std::string>& args)
    fs,      \* the filesystem: absolute path -> node
    cwd,     \* the process's current working directory
    pc,      \* the handler's position
    loc,     \* the handler's local variables
    result,  \* what the handler returned (or threw)
    log,     \* the system calls that act on the filesystem, in order
    fds,     \* the number of descriptors the process holds open
    hist,    \* what earlier runs of the same command left (result, filesystem)
    env,     \* the process environment: HOME
    term     \* the terminal: what was read from stdin, written to stdout, stderr

vars == <<cmd, args, fs, cwd, pc, loc, result, log, fds, hist, env, term>>

----------------------------------------------------------------------------
(* Bounds of the model.                                                    *)

\* longest file content drawn for grep
MaxGrepLen == 5
\* longest file content drawn for wc
MaxWcLen == 4

----------------------------------------------------------------------------
(* Program constants.                                                      *)

\* char buffer[1024] in grepCommand
GrepBufferSize == 1024
\* char buffer[4096] in wcCommand
WcBufferSize == 4096
\* the largest int std::stoi returns
IntMax == 2147483647

----------------------------------------------------------------------------
(* Strings.                                                                *)

NL == "\n"

Min(a, b) == IF a < b THEN a ELSE b

\* every sequence over S of length at most n
SeqsUpTo(S, n) == UNION {[1..k -> S] : k \in 0..n}

\* std::string::find(c): the first position of c in s (1-based), 0 for npos
Find(s, c) ==
    IF \E k \in 1..Len(s) : s[k] = c
    THEN CHOOSE k \in 1..Len(s) : s[k] = c /\ \A j \in 1..(k-1) : s[j] # c
    ELSE 0

\* std::string::find_last_of(c): the last position of c in s (1-based), 0 for npos
FindLastOf(s, c) ==
    IF \E k \in 1..Len(s) : s[k] = c
    THEN CHOOSE k \in 1..Len(s) : s[k] = c /\ \A j \in (k+1)..Len(s) : s[j] # c
    ELSE 0

\* Commands::stripTrailingNewline
stripTrailingNewline(s) ==
    IF s # <<>> /\ s[Len(s)] = NL THEN SubSeq(s, 1, Len(s) - 1) ELSE s

DigitChars == <<"0", "1", "2", "3", "4", "5", "6", "7", "8", "9">>

\* the value of a digit character, -1 for any other character
DigitVal(c) ==
    IF \E d \in 1..10 : DigitChars[d] = c
    THEN (CHOOSE d \in 1..10 : DigitChars[d] = c) - 1
    ELSE -1

IsDigitOf(c, base) == DigitVal(c) >= 0 /\ DigitVal(c) < base

\* std::to_string of an int
RECURSIVE ToStringNat(_)
ToStringNat(n) ==
    IF n < 10 THEN <<DigitChars[n + 1]>>
    ELSE ToStringNat(n \div 10) \o <<DigitChars[(n % 10) + 1]>>

to_string(n) == IF n < 0 THEN <<"-">> \o ToStringNat(-n) ELSE ToStringNat(n)

\* the number of characters of s from position k on that are digits of base
RECURSIVE DigitRun(_, _, _)
DigitRun(s, k, base) ==
    IF k <= Len(s) /\ IsDigitOf(s[k], base) THEN 1 + DigitRun(s, k + 1, base) ELSE 0

\* the value of the n digits of s that start at position k
RECURSIVE DigitsValue(_, _, _, _)
DigitsValue(s, k, n, base) ==
    IF n = 0 THEN 0
    ELSE DigitsValue(s, k, n - 1, base) * base + DigitVal(s[k + n - 1])

\* the number of leading blanks strtol skips
RECURSIVE BlankRun(_, _)
BlankRun(s, k) ==
    IF k <= Len(s) /\ s[k] \in {" ", "\t"} THEN 1 + BlankRun(s, k + 1) ELSE 0

\* a variant of StoI that rejects a token with anything after its digits
StoIStrict(s, base) ==
    LET n == DigitRun(s, 1, base)
    IN  IF n = 0 \/ n # Len(s) THEN [kind |-> "invalid_argument"]
        ELSE [kind |-> "ok", value |-> DigitsValue(s, 1, n, base)]

\* std::stoi(s, nullptr, base): blanks, an optional sign, then the longest run
\* of digits; what follows the digits is ignored; no digit at all throws
\* std::invalid_argument, a value outside int throws std::out_of_range
StoI(s, base) ==
    LET k0  == 1 + BlankRun(s, 1)
        sgn == k0 <= Len(s) /\ s[k0] \in {"-", "+"}
        neg == k0 <= Len(s) /\ s[k0] = "-"
        k1  == IF sgn THEN k0 + 1 ELSE k0
        n   == DigitRun(s, k1, base)
        v   == DigitsValue(s, k1, n, base)
        sv  == IF neg THEN 0 - v ELSE v
    IN  IF n = 0 THEN [kind |-> "invalid_argument"]
        ELSE IF sv > IntMax \/ sv < 0 - IntMax - 1 THEN [kind |-> "out_of_range"]
        ELSE [kind |-> "ok", value |-> sv]

----------------------------------------------------------------------------
(* Results.                                                                *)

NoResult == [kind |-> "none"]

\* CommandResult {status, output, error}
CommandResult(status, output, error) ==
    [kind |-> "result", status |-> status, output |-> output, error |-> error]

\* an exception that leaves the handler
Thrown(what) == [kind |-> "exception", what |-> what]

Returned == result.kind = "result"

----------------------------------------------------------------------------
(* The filesystem.                                                         *)

Root == <<>>

DirNode == [type |-> "dir", mode |-> 493, owner |-> 0]

FileNode(data) == [type |-> "file", data |-> data, mode |-> 420, owner |-> 0]

\* the components of a path string: what lies between its slashes, the
\* component "." naming the directory it is found in
RECURSIVE Split(_)
Split(p) ==
    IF p = <<>> THEN <<>>
    ELSE LET k == Find(p, "/")
             name == IF k = 0 THEN p ELSE SubSeq(p, 1, k - 1)
             rest == IF k = 0 THEN <<>> ELSE SubSeq(p, k + 1, Len(p))
         IN  IF name = <<>> \/ name = <<".">> THEN Split(rest)
             ELSE <<name>> \o Split(rest)

\* the absolute path a path string names
Resolve(p) == IF p # <<>> /\ p[1] = "/" THEN Split(p) ELSE cwd \o Split(p)

Exists(f, ap) == ap \in DOMAIN f
IsDir(f, ap) == ap \in DOMAIN f /\ f[ap].type = "dir"
IsFile(f, ap) == ap \in DOMAIN f /\ f[ap].type = "file"

Parent(ap) == SubSeq(ap, 1, Len(ap) - 1)

\* every proper ancestor of ap is a directory
AncestorsAreDirs(f, ap) == \A k \in 0..(Len(ap) - 1) : IsDir(f, SubSeq(ap, 1, k))

\* the names of the entries of directory ap
Children(f, ap) ==
    {q[Len(q)] : q \in {r \in DOMAIN f : Len(r) = Len(ap) + 1 /\ Parent(r) = ap}}

\* the filesystem with ap mapped to node
WithNode(f, ap, node) ==
    [q \in (DOMAIN f) \cup {ap} |-> IF q = ap THEN node ELSE f[q]]

\* the filesystem without ap
WithoutNode(f, ap) == [q \in (DOMAIN f) \ {ap} |-> f[q]]

\* open(path, O_RDONLY) succeeds on an existing entry reached through directories
CanOpenRead(f, p) ==
    p # <<>> /\ Exists(f, Resolve(p)) /\ AncestorsAreDirs(f, Resolve(p))

----------------------------------------------------------------------------
(* The process environment and the terminal.                               *)

\* getenv("HOME") returns a null pointer when HOME is not set
HomeUnset == [set |-> FALSE, value |-> <<>>]

\* getenv("HOME") returns value
HomeSet(value) == [set |-> TRUE, value |-> value]

\* the environment of a run that never reads it
NoEnv == [HOME |-> HomeUnset]

\* the terminal: lines counts the lines taken from stdin, eof says that stdin
\* is exhausted, prompts counts the prompts printed, got says that
\* std::getline took a line since the last prompt, out and err are what was
\* written to std::cout and std::cerr since the last prompt
Terminal(lines, eof, prompts, got, out, err) ==
    [lines |-> lines, eof |-> eof, prompts |-> prompts, got |-> got,
     out |-> out, err |-> err]

\* the terminal before anything was read or written
NoTerminal == Terminal(0, FALSE, 0, FALSE, <<>>, <<>>)

----------------------------------------------------------------------------
(* grep.                                                                   *)

\* the flag tokens grepCommand recognises
TokI == <<"-", "i">>
TokN == <<"-", "n">>
TokV == <<"-", "v">>
TokW == <<"-", "w">>
TokC == <<"-", "c">>
TokO == <<"-", "o">>
TokM == <<"-", "m">>

\* args[idx][0] == '-'
StartsWithDash(tok) == tok # <<>> /\ tok[1] = "-"

GrepNoOpts ==
    [opt_i |-> FALSE, opt_n |-> FALSE, opt_v |-> FALSE, opt_w |-> FALSE,
     opt_c |-> FALSE, opt_o |-> FALSE, opt_m |-> -1]

\* the flag loop of grepCommand; idx and the positions of a are 1-based
RECURSIVE GrepParseFlags(_, _, _, _)
GrepParseFlags(a, idx, flagCount, o) ==
    IF idx <= Len(a) /\ StartsWithDash(a[idx])
    THEN IF flagCount + 1 > 1
         THEN [kind |-> "return",
               res |-> CommandResult(1, <<>>, "grep: only one flag can be used at a time")]
         ELSE LET flag == a[idx]
              IN  IF flag = TokI THEN GrepParseFlags(a, idx + 1, flagCount + 1, [o EXCEPT !.opt_i = TRUE])
                  ELSE IF flag = TokN THEN GrepParseFlags(a, idx + 1, flagCount + 1, [o EXCEPT !.opt_n = TRUE])
                  ELSE IF flag = TokV THEN GrepParseFlags(a, idx + 1, flagCount + 1, [o EXCEPT !.opt_v = TRUE])
                  ELSE IF flag = TokW THEN GrepParseFlags(a, idx + 1, flagCount + 1, [o EXCEPT !.opt_w = TRUE])
                  ELSE IF flag = TokC THEN GrepParseFlags(a, idx + 1, flagCount + 1, [o EXCEPT !.opt_c = TRUE])
                  ELSE IF flag = TokO THEN GrepParseFlags(a, idx + 1, flagCount + 1, [o EXCEPT !.opt_o = TRUE])
                  ELSE IF flag = TokM
                  THEN IF idx + 1 > Len(a)
                       THEN [kind |-> "return",
                             res |-> CommandResult(1, <<>>, "grep: missing argument for -m")]
                       ELSE LET n == StoI(a[idx + 1], 10)
                            IN  IF n.kind # "ok"
                                THEN [kind |-> "throw", res |-> Thrown(n.kind)]
                                ELSE GrepParseFlags(a, idx + 2, flagCount + 1,
                                                    [o EXCEPT !.opt_m = n.value])
                  ELSE [kind |-> "ok", idx |-> idx, opts |-> o]
    ELSE [kind |-> "ok", idx |-> idx, opts |-> o]

\* std::tolower on the letters of the model
Lower(c) == IF c = "A" THEN "a" ELSE IF c = "B" THEN "b" ELSE c

\* a word character of the regex grammar (\w)
IsWordChar(c) == c \notin {NL, " ", "\t", ":", "-", "/"}

\* \b at the gap before position k of line
WordBoundary(line, k) ==
    LET before == k > 1 /\ k - 1 <= Len(line) /\ IsWordChar(line[k - 1])
        after  == k >= 1 /\ k <= Len(line) /\ IsWordChar(line[k])
    IN  before # after

\* the literal pattern pat occurs in line at position k
OccursAt(line, pat, k, icase, word) ==
    /\ k + Len(pat) - 1 <= Len(line)
    /\ \A j \in 1..Len(pat) :
          IF icase THEN Lower(line[k + j - 1]) = Lower(pat[j])
          ELSE line[k + j - 1] = pat[j]
    /\ word => WordBoundary(line, k) /\ WordBoundary(line, k + Len(pat))

\* std::regex_search for a literal pattern: the position of the leftmost match, 0 for none
RegexSearch(line, pat, icase, word) ==
    IF \E k \in 1..Len(line) : OccursAt(line, pat, k, icase, word)
    THEN CHOOSE k \in 1..Len(line) :
            /\ OccursAt(line, pat, k, icase, word)
            /\ \A j \in 1..(k - 1) : ~OccursAt(line, pat, j, icase, word)
    ELSE 0

\* Commands::matchesPattern: whether line matches, and outMatch
matchesPattern(line, pat, o) ==
    LET k == RegexSearch(line, pat, o.opt_i, o.opt_w)
    IN  IF k = 0 THEN [matched |-> FALSE, outMatch |-> <<>>]
        ELSE [matched |-> TRUE,
              outMatch |-> IF o.opt_o THEN SubSeq(line, k, k + Len(pat) - 1) ELSE line]

\* a variant of LimitExceeded that lets one match too many through
LimitExceededLate(opt_m, totalMatches) == opt_m # -1 /\ totalMatches > opt_m + 1

\* opt_m != -1 && totalMatches > opt_m
LimitExceeded(opt_m, totalMatches) == opt_m # -1 /\ totalMatches > opt_m

\* what grepCommand does with one line (the body of the inner loop, and again
\* for the final line without a newline): l is loc, the answer is the new loc
\* and, when the handler returns from inside the loop, its result
GrepLine(l, line) ==
    LET o       == l.opts
        m       == matchesPattern(line, l.pattern, o)
        matched == IF o.opt_v THEN ~m.matched ELSE m.matched
        total   == l.totalMatches + 1
        prefix  == (IF l.multipleFiles THEN l.file \o <<":">> ELSE <<>>)
                   \o (IF o.opt_n THEN to_string(l.lineNumber) \o <<":">> ELSE <<>>)
        text    == IF o.opt_v /\ ~o.opt_o THEN line ELSE m.outMatch
    IN  IF ~matched THEN [loc |-> l, returned |-> FALSE]
        ELSE IF LimitExceeded(o.opt_m, total)
        THEN [loc |-> [l EXCEPT !.totalMatches = total],
              returned |-> TRUE,
              res |-> IF o.opt_c THEN CommandResult(0, to_string(total), "")
                      ELSE CommandResult(0, stripTrailingNewline(l.out), "")]
        ELSE [loc |-> [l EXCEPT !.totalMatches = total,
                                !.out = IF o.opt_c THEN @ ELSE @ \o prefix \o text \o <<NL>>],
              returned |-> FALSE]

\* the inner while loop: every complete line of lineBuffer, in order
RECURSIVE GrepScanLines(_)
GrepScanLines(l) ==
    LET newlinePos == Find(l.lineBuffer, NL)
    IN  IF newlinePos = 0 THEN [loc |-> l, returned |-> FALSE]
        ELSE LET line == SubSeq(l.lineBuffer, 1, newlinePos - 1)
                 l1   == [l EXCEPT !.lineBuffer = SubSeq(@, newlinePos + 1, Len(@))]
                 r    == GrepLine(l1, line)
             IN  IF r.returned THEN r
                 ELSE GrepScanLines([r.loc EXCEPT !.lineNumber = @ + 1])

\* grepCommand up to the file loop: the argument checks and the flag loop
GrepBegin ==
    /\ cmd = "grep" /\ pc = "start"
    /\ LET p == GrepParseFlags(args, 1, 0, GrepNoOpts)
       IN  IF Len(args) < 2
           THEN /\ result' = CommandResult(1, <<>>, "grep: missing arguments")
                /\ pc' = "done" /\ loc' = loc
           ELSE IF p.kind # "ok"
           THEN /\ result' = p.res
                /\ pc' = "done" /\ loc' = loc
           ELSE IF p.idx > Len(args)
           THEN /\ result' = CommandResult(1, <<>>, "grep: missing pattern")
                /\ pc' = "done" /\ loc' = loc
           ELSE IF p.idx + 1 > Len(args)
           THEN /\ result' = CommandResult(1, <<>>, "grep: missing file operand")
                /\ pc' = "done" /\ loc' = loc
           ELSE /\ loc' = [opts |-> p.opts, pattern |-> args[p.idx], i |-> p.idx + 1,
                           multipleFiles |-> Len(args) - p.idx > 1,
                           totalMatches |-> 0, out |-> <<>>, file |-> <<>>,
                           lineBuffer |-> <<>>, lineNumber |-> 1, offset |-> 0,
                           readFailed |-> FALSE]
                /\ pc' = "grep_open"
                /\ result' = result
    /\ UNCHANGED <<cmd, args, fs, cwd, log, fds, hist, env, term>>

\* a variant of GrepReturn that tests for no match before it tests count mode
GrepReturnNoMatchFirst(opt_c, totalMatches, out) ==
    IF totalMatches = 0 THEN CommandResult(1, <<>>, "")
    ELSE IF opt_c THEN CommandResult(0, to_string(totalMatches), "")
    ELSE CommandResult(0, stripTrailingNewline(out), "")

\* what grepCommand returns after the file loop
GrepReturn(opt_c, totalMatches, out) ==
    IF opt_c THEN CommandResult(0, to_string(totalMatches), "")
    ELSE IF totalMatches = 0 THEN CommandResult(1, <<>>, "")
    ELSE CommandResult(0, stripTrailingNewline(out), "")

\* the head of the file loop: open the next file, or leave the loop and return
GrepOpen ==
    /\ cmd = "grep" /\ pc = "grep_open"
    /\ IF loc.i > Len(args)
       THEN /\ result' = GrepReturn(loc.opts.opt_c, loc.totalMatches, loc.out)
            /\ pc' = "done"
            /\ UNCHANGED <<loc, fds>>
       ELSE IF ~CanOpenRead(fs, args[loc.i])
       THEN /\ result' = CommandResult(1, <<>>, "grep: cannot open file")
            /\ pc' = "done"
            /\ UNCHANGED <<loc, fds>>
       ELSE /\ loc' = [loc EXCEPT !.file = args[loc.i], !.lineBuffer = <<>>,
                                  !.lineNumber = 1, !.offset = 0]
            /\ fds' = fds + 1
            /\ pc' = "grep_read"
            /\ result' = result
    /\ UNCHANGED <<cmd, args, fs, cwd, log, hist, env, term>>

\* the bytes of the file a path string names (none for a directory)
FileData(f, p) == IF IsFile(f, Resolve(p)) THEN f[Resolve(p)].data ELSE <<>>

\* one read() that returns n > 0 bytes, and the inner loop over the complete lines
GrepRead ==
    /\ cmd = "grep" /\ pc = "grep_read"
    /\ LET data == FileData(fs, loc.file)
       IN  \E n \in 1..Min(GrepBufferSize, Len(data) - loc.offset) :
             LET l1 == [loc EXCEPT !.lineBuffer = @ \o SubSeq(data, loc.offset + 1, loc.offset + n),
                                   !.offset = @ + n]
                 r  == GrepScanLines(l1)
             IN  IF r.returned
                 THEN /\ fds' = fds - 1
                      /\ result' = r.res
                      /\ loc' = r.loc
                      /\ pc' = "done"
                 ELSE /\ loc' = r.loc
                      /\ UNCHANGED <<fds, result, pc>>
    /\ UNCHANGED <<cmd, args, fs, cwd, log, hist, env, term>>

\* read() returned 0 (end of file) or -1 (an error, which the loop does not tell
\* apart): the final line without a newline, then close
GrepEndOfFile ==
    /\ cmd = "grep" /\ pc = "grep_read"
    /\ \E failed \in BOOLEAN :
         /\ ~failed => loc.offset = Len(FileData(fs, loc.file))
         /\ failed => loc.offset < Len(FileData(fs, loc.file)) \/ IsDir(fs, Resolve(loc.file))
         /\ LET l0 == [loc EXCEPT !.readFailed = @ \/ failed]
                r  == IF l0.lineBuffer # <<>> THEN GrepLine(l0, l0.lineBuffer)
                      ELSE [loc |-> l0, returned |-> FALSE]
            IN  /\ fds' = fds - 1
                /\ IF r.returned
                   THEN /\ result' = r.res
                        /\ loc' = r.loc
                        /\ pc' = "done"
                   ELSE /\ loc' = [r.loc EXCEPT !.i = @ + 1]
                        /\ pc' = "grep_open"
                        /\ result' = result
    /\ UNCHANGED <<cmd, args, fs, cwd, log, hist, env, term>>

GrepNext == GrepBegin \/ GrepOpen \/ GrepRead \/ GrepEndOfFile

\* the names and contents the grep runs are drawn from
NameF == <<"f">>
NameG == <<"g">>
NameH == <<"h">>
PatA == <<"a">>
PatUpperA == <<"A">>

GrepByteSet == {"a", "b", NL}

GrepArgSet ==
    {<<TokM, <<n>>, PatA, NameF>> : n \in {"0", "1", "2", "x"}}
    \cup {<<TokM, <<"2">>, TokC, PatA, NameF>>, <<TokC, TokM, <<"2">>, PatA, NameF>>,
          <<TokM, <<"1">>, TokC, PatA, NameF>>,
          <<TokM, <<"-", "1">>, PatA, NameF>>,
          <<TokC, PatA, NameF>>, <<PatA, NameF>>, <<TokN, PatA, NameF, NameG>>,
          <<TokV, PatA, NameF>>, <<TokO, PatA, NameF>>, <<TokW, PatA, NameF>>,
          <<TokI, PatUpperA, NameF>>, <<PatA, NameH>>, <<TokM>>, <<TokM, <<"1">>>>,
          <<TokC, PatA>>, <<PatA>>}

GrepInit ==
    /\ cmd = "grep"
    /\ args \in GrepArgSet
    /\ \E data \in SeqsUpTo(GrepByteSet, MaxGrepLen) :
          fs = (Root :> DirNode) @@ (<<NameF>> :> FileNode(data))
               @@ (<<NameG>> :> FileNode(<<"a", NL>>))
    /\ cwd = Root
    /\ pc = "start"
    /\ loc = [none |-> TRUE]
    /\ result = NoResult
    /\ log = <<>>
    /\ fds = 0
    /\ hist = <<>>
    /\ env = NoEnv
    /\ term = NoTerminal

SpecGrep == GrepInit /\ [][GrepNext]_vars

----------------------------------------------------------------------------
(* Properties of grep.                                                     *)

\* the lines of a file: the newline-terminated ones, then a final one without
RECURSIVE LinesOf(_)
LinesOf(d) ==
    IF d = <<>> THEN <<>>
    ELSE LET k == Find(d, NL)
         IN  IF k = 0 THEN <<d>>
             ELSE <<SubSeq(d, 1, k - 1)>> \o LinesOf(SubSeq(d, k + 1, Len(d)))

\* the lines of d that contain pat, in file order
MatchingLines(d, pat) ==
    LET Hit(line) == RegexSearch(line, pat, FALSE, FALSE) # 0
    IN  SelectSeq(LinesOf(d), Hit)

\* lines joined by newlines, none after the last
RECURSIVE JoinLines(_)
JoinLines(ls) ==
    IF ls = <<>> THEN <<>>
    ELSE IF Len(ls) = 1 THEN ls[1]
    ELSE ls[1] \o <<NL>> \o JoinLines(Tail(ls))

\* a token that is a decimal number N >= 0
IsCount(tok) == StoIStrict(tok, 10).kind = "ok"
CountOf(tok) == StoIStrict(tok, 10).value

\* grep was invoked as -m N <pattern> <file>, the file has more than N matching
\* lines, every read succeeded, and the handler is done
GrepLimitCase ==
    /\ cmd = "grep" /\ pc = "done"
    /\ Len(args) = 4 /\ args[1] = TokM /\ IsCount(args[2])
    /\ ~StartsWithDash(args[3])
    /\ IsFile(fs, Resolve(args[4]))
    /\ Len(MatchingLines(FileData(fs, args[4]), args[3])) > CountOf(args[2])
    /\ ~loc.readFailed

\* C1: grep -m N <pattern> <file> on a file with more than N matching lines
\* returns status 0 and exactly the first N matching lines, in file order,
\* joined by newlines with none after the last; never N+1 lines.
C1_GrepLimitLines ==
    GrepLimitCase =>
        result = CommandResult(0,
                     JoinLines(SubSeq(MatchingLines(FileData(fs, args[4]), args[3]),
                                      1, CountOf(args[2]))),
                     "")

\* C1 witness: N >= 1, and the (N+1)-th match is the final line, which has no newline
C1_Witness ==
    /\ GrepLimitCase
    /\ CountOf(args[2]) >= 1
    /\ LET d == FileData(fs, args[4])
       IN  /\ d[Len(d)] # NL
           /\ Len(MatchingLines(d, args[3])) = CountOf(args[2]) + 1
           /\ RegexSearch(LinesOf(d)[Len(LinesOf(d))], args[3], FALSE, FALSE) # 0
    /\ Returned /\ result.output # <<>>

\* grep was given both -m N and -c (in either order) before <pattern> <file>,
\* and the file has more than N matching lines
GrepLimitCountCase ==
    /\ cmd = "grep" /\ pc = "done"
    /\ Len(args) = 5
    /\ \/ args[1] = TokM /\ IsCount(args[2]) /\ args[3] = TokC
       \/ args[1] = TokC /\ args[2] = TokM /\ IsCount(args[3])
    /\ IsFile(fs, Resolve(args[5]))

GrepLimitCountN == IF args[1] = TokM THEN CountOf(args[2]) ELSE CountOf(args[3])

\* C2: grep with -m N and -c on a file with more than N matching lines returns
\* status 0 with the count N as output.
C2_GrepLimitCount ==
    (GrepLimitCountCase
        /\ Len(MatchingLines(FileData(fs, args[5]), args[4])) > GrepLimitCountN)
    => result = CommandResult(0, to_string(GrepLimitCountN), "")

\* C9: whatever the arguments, the handler returns a CommandResult: no
\* exception leaves it.
C9_NoExceptionEscapes == pc = "done" => result.kind = "result"

----------------------------------------------------------------------------
(* wc.                                                                     *)

TokL == <<"-", "l">>

\* the flag loop of wcCommand: the flags seen, and the other arguments in order
WcParse(a) ==
    LET l == \E k \in 1..Len(a) : a[k] = TokL
        w == \E k \in 1..Len(a) : a[k] = TokW
        c == \E k \in 1..Len(a) : a[k] = TokC
        IsOperand(t) == t \notin {TokL, TokW, TokC}
        none == ~l /\ ~w /\ ~c
    IN  [countLines |-> l \/ none, countWords |-> w \/ none, countChars |-> c \/ none,
         files |-> SelectSeq(a, IsOperand)]

\* Commands::isFileEmpty: stat succeeds and st_size == 0 (a directory has a size)
isFileEmpty(f, p) ==
    /\ p # <<>> /\ AncestorsAreDirs(f, Resolve(p))
    /\ IsFile(f, Resolve(p)) /\ f[Resolve(p)].data = <<>>

\* the line of counts wcCommand appends for one file
WcReport(l, lines, words, chars, filename) ==
    (IF l.countLines THEN to_string(lines) \o <<" ">> ELSE <<>>)
    \o (IF l.countWords THEN to_string(words) \o <<" ">> ELSE <<>>)
    \o (IF l.countChars THEN to_string(chars) \o <<" ">> ELSE <<>>)
    \o filename \o <<NL>>

\* the body of the for loop over the bytes of one chunk, for one byte
WcByte(l, c) ==
    LET ws == c = " " \/ c = "\t" \/ c = NL \/ c = "\r"
    IN  [l EXCEPT !.chars = @ + 1,
                  !.lines = IF c = NL THEN @ + 1 ELSE @,
                  !.lastCharWasNewline = (c = NL),
                  !.words = IF ~ws /\ ~l.inWord THEN @ + 1 ELSE @,
                  !.inWord = ~ws]

\* the for loop over a chunk
RECURSIVE WcChunk(_, _)
WcChunk(l, chunk) ==
    IF chunk = <<>> THEN l ELSE WcChunk(WcByte(l, Head(chunk)), Tail(chunk))

\* a variant of WcFinalLines that forgets the final line without a newline
WcFinalLinesNoTail(lines, lastCharWasNewline) == lines

\* if (!lastCharWasNewline) ++lines
WcFinalLines(lines, lastCharWasNewline) ==
    IF ~lastCharWasNewline THEN lines + 1 ELSE lines

\* wcCommand up to the file loop
WcBegin ==
    /\ cmd = "wc" /\ pc = "start"
    /\ LET p == WcParse(args)
       IN  IF p.files = <<>>
           THEN /\ result' = CommandResult(1, <<>>, "wc: missing file operand")
                /\ pc' = "done" /\ loc' = loc
           ELSE /\ loc' = [countLines |-> p.countLines, countWords |-> p.countWords,
                           countChars |-> p.countChars, files |-> p.files, k |-> 1,
                           out |-> <<>>, lines |-> 0, words |-> 0, chars |-> 0,
                           inWord |-> FALSE, lastCharWasNewline |-> TRUE,
                           offset |-> 0, reads |-> 0, readFailed |-> FALSE]
                /\ pc' = "wc_file"
                /\ result' = result
    /\ UNCHANGED <<cmd, args, fs, cwd, log, fds, hist, env, term>>

\* the head of the file loop: the empty-file shortcut, or open the file
WcFile ==
    /\ cmd = "wc" /\ pc = "wc_file"
    /\ IF loc.k > Len(loc.files)
       THEN /\ result' = CommandResult(0, stripTrailingNewline(loc.out), "")
            /\ pc' = "done"
            /\ UNCHANGED <<loc, fds>>
       ELSE LET filename == loc.files[loc.k]
            IN  IF isFileEmpty(fs, filename)
                THEN /\ loc' = [loc EXCEPT !.out = @ \o WcReport(loc, 0, 0, 0, filename),
                                           !.k = @ + 1]
                     /\ UNCHANGED <<pc, result, fds>>
                ELSE IF ~CanOpenRead(fs, filename)
                THEN /\ result' = CommandResult(1, <<>>, "wc: cannot open file")
                     /\ pc' = "done"
                     /\ UNCHANGED <<loc, fds>>
                ELSE /\ loc' = [loc EXCEPT !.lines = 0, !.words = 0, !.chars = 0,
                                           !.inWord = FALSE, !.lastCharWasNewline = TRUE,
                                           !.offset = 0, !.reads = 0]
                     /\ fds' = fds + 1
                     /\ pc' = "wc_read"
                     /\ result' = result
    /\ UNCHANGED <<cmd, args, fs, cwd, log, hist, env, term>>

\* one read() that returns n > 0 bytes, and the loop over them
WcRead ==
    /\ cmd = "wc" /\ pc = "wc_read"
    /\ LET data == FileData(fs, loc.files[loc.k])
       IN  \E n \in 1..Min(WcBufferSize, Len(data) - loc.offset) :
             loc' = [WcChunk(loc, SubSeq(data, loc.offset + 1, loc.offset + n))
                        EXCEPT !.offset = @ + n, !.reads = @ + 1]
    /\ UNCHANGED <<cmd, args, fs, cwd, pc, result, log, fds, hist, env, term>>

\* read() returned 0 (end of file) or -1 (an error): the final line, the error
\* return, close, and the line of counts
WcEndOfFile ==
    /\ cmd = "wc" /\ pc = "wc_read"
    /\ \E failed \in BOOLEAN :
         LET filename == loc.files[loc.k]
             lines    == WcFinalLines(loc.lines, loc.lastCharWasNewline)
         IN  /\ ~failed => loc.offset = Len(FileData(fs, filename)) /\ IsFile(fs, Resolve(filename))
             /\ failed => loc.offset < Len(FileData(fs, filename)) \/ IsDir(fs, Resolve(filename))
             /\ fds' = fds - 1
             /\ IF failed
                THEN /\ result' = CommandResult(1, <<>>, "wc: error reading file")
                     /\ loc' = [loc EXCEPT !.readFailed = TRUE, !.lines = lines]
                     /\ pc' = "done"
                ELSE /\ loc' = [loc EXCEPT !.lines = lines,
                                           !.out = @ \o WcReport(loc, lines, loc.words,
                                                                 loc.chars, filename),
                                           !.k = @ + 1]
                     /\ pc' = "wc_file"
                     /\ result' = result
    /\ UNCHANGED <<cmd, args, fs, cwd, log, hist, env, term>>

WcNext == WcBegin \/ WcFile \/ WcRead \/ WcEndOfFile

NameD == <<"d">>

WcByteSet == {"a", " ", NL}

WcArgSet ==
    {<<NameF>>, <<TokL, NameF>>, <<TokW, NameF>>, <<TokC, NameF>>, <<NameF, TokL, TokC>>,
     <<NameF, NameG>>, <<TokL, NameG, NameF>>, <<NameH>>, <<NameD>>, <<TokL>>, <<>>}

WcInit ==
    /\ cmd = "wc"
    /\ args \in WcArgSet
    /\ \E data \in SeqsUpTo(WcByteSet, MaxWcLen) :
          fs = (Root :> DirNode) @@ (<<NameF>> :> FileNode(data))
               @@ (<<NameG>> :> FileNode(<<"a", NL>>)) @@ (<<NameD>> :> DirNode)
    /\ cwd = Root
    /\ pc = "start"
    /\ loc = [none |-> TRUE]
    /\ result = NoResult
    /\ log = <<>>
    /\ fds = 0
    /\ hist = <<>>
    /\ env = NoEnv
    /\ term = NoTerminal

SpecWc == WcInit /\ [][WcNext]_vars

----------------------------------------------------------------------------
(* Properties of wc.                                                       *)

\* the number of positions of d that hold c
CountOfByte(d, c) == Cardinality({k \in 1..Len(d) : d[k] = c})

\* the line count the claim states: the newlines, plus one for a non-empty
\* content that does not end in one
ClaimedLines(d) ==
    CountOfByte(d, NL) + (IF d # <<>> /\ d[Len(d)] # NL THEN 1 ELSE 0)

\* the words of d: the positions where a word starts
ClaimedWords(d) ==
    LET Blank(c) == c \in {" ", "\t", NL, "\r"}
    IN  Cardinality({k \in 1..Len(d) : ~Blank(d[k]) /\ (k = 1 \/ Blank(d[k - 1]))})

\* the output the claim states for the files fl, one line per file
RECURSIVE ClaimedWcOutput(_, _)
ClaimedWcOutput(p, fl) ==
    IF fl = <<>> THEN <<>>
    ELSE LET d == FileData(fs, Head(fl))
         IN  WcReport(p, ClaimedLines(d), ClaimedWords(d), Len(d), Head(fl))
             \o ClaimedWcOutput(p, Tail(fl))

\* wc has finished over operands that are all readable regular files
WcReadableCase ==
    /\ cmd = "wc" /\ pc = "done"
    /\ WcParse(args).files # <<>>
    /\ \A k \in 1..Len(WcParse(args).files) : IsFile(fs, Resolve(WcParse(args).files[k]))
    /\ ~loc.readFailed

\* C3: for wc on readable files the reported line count is the number of
\* newline characters, plus one if the file is non-empty and does not end in a
\* newline; an empty file reports 0 for every requested metric; whatever the
\* chunks the content was read in.
C3_WcLineCount ==
    WcReadableCase =>
        result = CommandResult(0,
                     stripTrailingNewline(ClaimedWcOutput(WcParse(args), WcParse(args).files)),
                     "")

\* C3 witness: a content read in at least two chunks, with a newline inside
\* and none at the end, whose lines were reported
C3_Witness ==
    /\ WcReadableCase
    /\ args = <<TokL, NameF>>
    /\ LET d == FileData(fs, NameF)
       IN  Len(d) >= 3 /\ d[Len(d)] # NL /\ CountOfByte(d, NL) >= 1
    /\ Returned /\ result.status = 0
    /\ loc.reads >= 2
    /\ loc.lines = CountOfByte(FileData(fs, NameF), NL) + 1

----------------------------------------------------------------------------
(* System calls on directories.                                            *)

\* the errno of a path whose walk to its last component fails, "ok" otherwise
WalkErrno(f, p) ==
    IF p = <<>> THEN "ENOENT"
    ELSE IF AncestorsAreDirs(f, Resolve(p)) THEN "ok"
    ELSE IF \E k \in 0..(Len(Resolve(p)) - 1) : IsFile(f, SubSeq(Resolve(p), 1, k))
    THEN "ENOTDIR"
    ELSE "ENOENT"

\* the errnos with which mkdir(p, 0755) can return: EEXIST for anything that
\* exists (the root included); success, or a failure of the environment
\* (permissions, space), when the directory can be made
MkdirErrnos(f, p) ==
    IF WalkErrno(f, p) # "ok" THEN {WalkErrno(f, p)}
    ELSE IF Exists(f, Resolve(p)) THEN {"EEXIST"}
    ELSE {"ok", "EACCES"}

\* the filesystem after mkdir(p, 0755) returned e
AfterMkdir(f, p, e) == IF e = "ok" THEN WithNode(f, Resolve(p), DirNode) ELSE f

\* the errno with which rmdir(p) returns
RmdirErrno(f, p) ==
    IF WalkErrno(f, p) # "ok" THEN WalkErrno(f, p)
    ELSE IF ~Exists(f, Resolve(p)) THEN "ENOENT"
    ELSE IF IsFile(f, Resolve(p)) THEN "ENOTDIR"
    ELSE IF Resolve(p) = Root \/ Resolve(p) = cwd THEN "EBUSY"
    ELSE IF Children(f, Resolve(p)) # {} THEN "ENOTEMPTY"
    ELSE "ok"

\* the filesystem after rmdir(p) returned e
AfterRmdir(f, p, e) == IF e = "ok" THEN WithoutNode(f, Resolve(p)) ELSE f

\* one entry of the log of system calls
Call(op, p, e) == [op |-> op, path |-> p, target |-> Resolve(p), err |-> e]

----------------------------------------------------------------------------
(* mkdir.                                                                  *)

TokP == <<"-", "p">>

\* the flag loop of mkdirCommand; idx and the positions of a are 1-based
RECURSIVE MkdirParseFlags(_, _, _)
MkdirParseFlags(a, idx, recurse) ==
    IF idx <= Len(a) /\ StartsWithDash(a[idx])
    THEN IF a[idx] = TokP THEN MkdirParseFlags(a, idx + 1, TRUE)
         ELSE [kind |-> "return", res |-> CommandResult(1, <<>>, "mkdir: invalid option")]
    ELSE [kind |-> "ok", idx |-> idx, recurse |-> recurse]

\* a variant of MkdirTolerates that tolerates no error
MkdirToleratesNothing(e) == FALSE

\* errno != EEXIST is what fails mkdir -p
MkdirTolerates(e) == e = "EEXIST"

\* mkdirCommand up to the loop over the paths
MkdirBegin ==
    /\ cmd = "mkdir" /\ pc = "start"
    /\ LET p == MkdirParseFlags(args, 1, FALSE)
       IN  IF args = <<>>
           THEN /\ result' = CommandResult(1, <<>>, "mkdir: missing directory argument")
                /\ pc' = "done" /\ loc' = loc
           ELSE IF p.kind # "ok"
           THEN /\ result' = p.res
                /\ pc' = "done" /\ loc' = loc
           ELSE IF p.idx > Len(args)
           THEN /\ result' = CommandResult(1, <<>>, "mkdir: missing directory argument")
                /\ pc' = "done" /\ loc' = loc
           ELSE /\ loc' = [recurse |-> p.recurse, idx |-> p.idx, i |-> 1, partial |-> <<>>]
                /\ pc' = "mkdir_path"
                /\ result' = result
    /\ UNCHANGED <<cmd, args, fs, cwd, log, fds, hist, env, term>>

\* the head of the loop over the paths, and the plain mkdir of one path
MkdirPath ==
    /\ cmd = "mkdir" /\ pc = "mkdir_path"
    /\ IF loc.idx > Len(args)
       THEN /\ result' = CommandResult(0, <<>>, "")
            /\ pc' = "done"
            /\ UNCHANGED <<loc, fs, log>>
       ELSE IF loc.recurse
       THEN /\ loc' = [loc EXCEPT !.i = 1, !.partial = <<>>]
            /\ pc' = "mkdir_char"
            /\ UNCHANGED <<result, fs, log>>
       ELSE \E e \in MkdirErrnos(fs, args[loc.idx]) :
              /\ fs' = AfterMkdir(fs, args[loc.idx], e)
              /\ log' = Append(log, Call("mkdir", args[loc.idx], e))
              /\ IF e # "ok"
                 THEN /\ result' = CommandResult(1, <<>>, "mkdir: cannot create directory")
                      /\ pc' = "done"
                      /\ loc' = loc
                 ELSE /\ loc' = [loc EXCEPT !.idx = @ + 1]
                      /\ UNCHANGED <<pc, result>>
    /\ UNCHANGED <<cmd, args, cwd, fds, hist, env, term>>

\* one turn of the loop over the characters of a path (mkdir -p)
MkdirChar ==
    /\ cmd = "mkdir" /\ pc = "mkdir_char"
    /\ LET path == args[loc.idx]
       IN  IF loc.i > Len(path)
           THEN /\ loc' = [loc EXCEPT !.idx = @ + 1]
                /\ pc' = "mkdir_path"
                /\ UNCHANGED <<result, fs, log>>
           ELSE LET partial == Append(loc.partial, path[loc.i])
                    l1      == [loc EXCEPT !.partial = partial, !.i = @ + 1]
                IN  IF partial[Len(partial)] # "/" /\ loc.i # Len(path)
                    THEN /\ loc' = l1
                         /\ UNCHANGED <<pc, result, fs, log>>
                    ELSE IF partial = <<"/">> \/ partial = <<"/", "/">>
                    THEN /\ loc' = l1
                         /\ UNCHANGED <<pc, result, fs, log>>
                    ELSE \E e \in MkdirErrnos(fs, partial) :
                           /\ fs' = AfterMkdir(fs, partial, e)
                           /\ log' = Append(log, Call("mkdir", partial, e))
                           /\ IF e # "ok" /\ ~MkdirTolerates(e)
                              THEN /\ result' = CommandResult(1, <<>>, "mkdir: cannot create directory")
                                   /\ pc' = "done"
                                   /\ loc' = loc
                              ELSE /\ loc' = l1
                                   /\ UNCHANGED <<pc, result>>
    /\ UNCHANGED <<cmd, args, cwd, fds, hist, env, term>>

\* the same command line is entered once more
MkdirAgain ==
    /\ cmd = "mkdir" /\ pc = "done" /\ hist = <<>>
    /\ hist' = <<[result |-> result, fs |-> fs, calls |-> Len(log)]>>
    /\ pc' = "start"
    /\ loc' = [none |-> TRUE]
    /\ result' = NoResult
    /\ UNCHANGED <<cmd, args, fs, cwd, log, fds, env, term>>

MkdirNext == MkdirBegin \/ MkdirPath \/ MkdirChar \/ MkdirAgain

\* longest path string drawn for mkdir
MaxMkdirPathLen == 5

PathByteSet == {"a", "b", "/"}

PathA == <<"a">>
PathB == <<"b">>

\* the filesystems the directory commands start from
DirFsSet ==
    {(Root :> DirNode),
     (Root :> DirNode) @@ (<<PathA>> :> DirNode),
     (Root :> DirNode) @@ (<<PathA>> :> FileNode(<<>>)),
     (Root :> DirNode) @@ (<<PathA>> :> DirNode) @@ (<<PathA, PathB>> :> DirNode),
     (Root :> DirNode) @@ (<<PathA>> :> DirNode) @@ (<<PathA, PathB>> :> FileNode(<<>>))}

MkdirArgSet ==
    {<<TokP, p>> : p \in SeqsUpTo(PathByteSet, MaxMkdirPathLen) \ {<<>>}}
    \cup {<<p>> : p \in SeqsUpTo(PathByteSet, 3) \ {<<>>}}
    \cup {<<TokP, <<"a", "/", "b">>, <<"b">>>>, <<<<"a">>, <<"b">>>>, <<TokP>>, <<TokL, PathA>>, <<>>}

MkdirInit ==
    /\ cmd = "mkdir"
    /\ args \in MkdirArgSet
    /\ fs \in DirFsSet
    /\ cwd = Root
    /\ pc = "start"
    /\ loc = [none |-> TRUE]
    /\ result = NoResult
    /\ log = <<>>
    /\ fds = 0
    /\ hist = <<>>
    /\ env = NoEnv
    /\ term = NoTerminal

SpecMkdir == MkdirInit /\ [][MkdirNext]_vars

----------------------------------------------------------------------------
(* Properties of mkdir.                                                    *)

\* the directories of a filesystem
DirsOf(f) == {ap \in DOMAIN f : f[ap].type = "dir"}

\* mkdir -p was run, returned status 0, and the same command has run again
MkdirTwiceCase ==
    /\ cmd = "mkdir" /\ pc = "done" /\ Len(hist) = 1
    /\ Len(args) >= 2 /\ args[1] = TokP
    /\ hist[1].result.status = 0

\* C4: mkdir -p P is idempotent: when a first run returned status 0, a second
\* run of the same command returns status 0 too and leaves the set of
\* directories (and the rest of the filesystem) as the first run left it.
C4_MkdirPIdempotent ==
    MkdirTwiceCase =>
        /\ result = CommandResult(0, <<>>, "")
        /\ DirsOf(fs) = DirsOf(hist[1].fs)
        /\ fs = hist[1].fs

\* C4 witness: the first run made three nested directories, the second run
\* asked for each of them again
C4_Witness ==
    /\ MkdirTwiceCase
    /\ Len(args) = 2
    /\ Len(Resolve(args[2])) = 3
    /\ \A k \in 1..3 : \E j \in 1..hist[1].calls :
          log[j].err = "ok" /\ log[j].target = SubSeq(Resolve(args[2]), 1, k)
    /\ \E j \in (hist[1].calls + 1)..Len(log) :
          log[j].err = "EEXIST" /\ log[j].target = Resolve(args[2])
    /\ Returned /\ result.status = 0

----------------------------------------------------------------------------
(* rmdir.                                                                  *)

\* while (!path.empty() && path.back() == '/') path.pop_back()
RECURSIVE StripTrailingSlashes(_)
StripTrailingSlashes(path) ==
    IF path # <<>> /\ path[Len(path)] = "/"
    THEN StripTrailingSlashes(SubSeq(path, 1, Len(path) - 1))
    ELSE path

\* rmdirCommand up to the loop of the -p form; the plain form in full
RmdirBegin ==
    /\ cmd = "rmdir" /\ pc = "start"
    /\ IF args = <<>>
       THEN /\ result' = CommandResult(1, <<>>, "rmdir: missing operand")
            /\ pc' = "done"
            /\ UNCHANGED <<loc, fs, log>>
       ELSE IF Len(args) = 2
       THEN IF args[1] = TokP
            THEN IF args[2] = <<>>
                 THEN /\ result' = CommandResult(1, <<>>, "rmdir: no path specified")
                      /\ pc' = "done"
                      /\ UNCHANGED <<loc, fs, log>>
                 ELSE /\ loc' = [path |-> StripTrailingSlashes(args[2])]
                      /\ pc' = "rmdir_p"
                      /\ UNCHANGED <<result, fs, log>>
            ELSE /\ result' = CommandResult(1, <<>>, "rmdir: unrecognized option")
                 /\ pc' = "done"
                 /\ UNCHANGED <<loc, fs, log>>
       ELSE IF Len(args) > 2
       THEN /\ result' = CommandResult(1, <<>>, "rmdir: too many arguments")
            /\ pc' = "done"
            /\ UNCHANGED <<loc, fs, log>>
       ELSE LET e == RmdirErrno(fs, args[1])
            IN  /\ fs' = AfterRmdir(fs, args[1], e)
                /\ log' = Append(log, Call("rmdir", args[1], e))
                /\ result' = IF e = "ok" THEN CommandResult(0, <<>>, "")
                             ELSE CommandResult(1, <<>>, "rmdir: failed to remove")
                /\ pc' = "done"
                /\ loc' = loc
    /\ UNCHANGED <<cmd, args, cwd, fds, hist, env, term>>

\* path == "" || path == "/": where the -p loop stops going up
RmdirStopsAt(path) == path = <<>> \/ path = <<"/">>

\* one turn of the while loop of rmdir -p
RmdirPStep ==
    /\ cmd = "rmdir" /\ pc = "rmdir_p"
    /\ IF loc.path = <<>>
       THEN /\ result' = CommandResult(0, <<>>, "")
            /\ pc' = "done"
            /\ UNCHANGED <<loc, fs, log>>
       ELSE LET e    == RmdirErrno(fs, loc.path)
                pos  == FindLastOf(loc.path, "/")
                path == SubSeq(loc.path, 1, pos - 1)
            IN  /\ fs' = AfterRmdir(fs, loc.path, e)
                /\ log' = Append(log, Call("rmdir", loc.path, e))
                /\ IF e # "ok"
                   THEN /\ result' = CommandResult(1, <<>>, "rmdir: failed to remove")
                        /\ pc' = "done"
                        /\ loc' = loc
                   ELSE IF pos = 0
                   THEN /\ result' = CommandResult(0, <<>>, "")
                        /\ pc' = "done"
                        /\ loc' = loc
                   ELSE IF RmdirStopsAt(path)
                   THEN /\ result' = CommandResult(0, <<>>, "")
                        /\ pc' = "done"
                        /\ loc' = [loc EXCEPT !.path = path]
                   ELSE /\ loc' = [loc EXCEPT !.path = path]
                        /\ UNCHANGED <<pc, result>>
    /\ UNCHANGED <<cmd, args, cwd, fds, hist, env, term>>

RmdirNext == RmdirBegin \/ RmdirPStep

\* longest path string drawn for rmdir
MaxRmdirPathLen == 5

RmdirArgSet ==
    {<<TokP, p>> : p \in SeqsUpTo(PathByteSet, MaxRmdirPathLen) \ {<<>>}}
    \cup {<<p>> : p \in SeqsUpTo(PathByteSet, 3) \ {<<>>}}
    \cup {<<TokL, PathA>>, <<TokP, PathA, PathB>>, <<>>}

RmdirInit ==
    /\ cmd = "rmdir"
    /\ args \in RmdirArgSet
    /\ fs \in DirFsSet
    /\ cwd = Root
    /\ pc = "start"
    /\ loc = [none |-> TRUE]
    /\ result = NoResult
    /\ log = <<>>
    /\ fds = 0
    /\ hist = <<>>
    /\ env = NoEnv
    /\ term = NoTerminal

SpecRmdir == RmdirInit /\ [][RmdirNext]_vars

----------------------------------------------------------------------------
(* Properties of rmdir.                                                    *)

\* a path made only of '/' characters: the filesystem root
OnlySlashes(p) == p # <<>> /\ \A k \in 1..Len(p) : p[k] = "/"

\* C5: rmdir -p <path> attempts first the path with its trailing slashes
\* stripped, then each successively shorter ancestor, each directory at most
\* once; only the last attempt can have failed; and no attempt is ever made on
\* the filesystem root, whatever the slashes of the path.
C5_RmdirPAttempts ==
    (cmd = "rmdir" /\ Len(args) = 2 /\ args[1] = TokP) =>
        /\ log # <<>> => log[1].path = StripTrailingSlashes(args[2])
        /\ \A j \in 1..(Len(log) - 1) :
              /\ log[j].err = "ok"
              /\ log[j + 1].target = Parent(log[j].target)
        /\ \A j, k \in 1..Len(log) : j # k => log[j].target # log[k].target
        /\ \A j \in 1..Len(log) : ~OnlySlashes(log[j].path) /\ log[j].target # Root

----------------------------------------------------------------------------
(* System calls on files.                                                  *)

\* the directory that is the mount point of a second filesystem
MountPoint == <<<<"d">>>>

\* the filesystem (device) an absolute path lies on
DeviceOf(ap) ==
    IF Len(ap) >= 1 /\ SubSeq(ap, 1, 1) = MountPoint THEN "dev2" ELSE "dev1"

\* ap is q or lies beneath q
Under(ap, q) == Len(ap) >= Len(q) /\ SubSeq(ap, 1, Len(q)) = q

\* the errno with which rename(s, d) returns: EXDEV as soon as the two parent
\* directories lie on different filesystems
RenameErrno(f, s, d) ==
    LET as == Resolve(s)
        ad == Resolve(d)
    IN  IF WalkErrno(f, s) # "ok" THEN WalkErrno(f, s)
        ELSE IF WalkErrno(f, d) # "ok" THEN WalkErrno(f, d)
        ELSE IF as = Root \/ ad = Root THEN "EBUSY"
        ELSE IF DeviceOf(as) # DeviceOf(ad) THEN "EXDEV"
        ELSE IF ~Exists(f, as) THEN "ENOENT"
        ELSE IF as = ad THEN "ok"
        ELSE IF Under(ad, as) THEN "EINVAL"
        ELSE IF IsDir(f, as) /\ IsFile(f, ad) THEN "ENOTDIR"
        ELSE IF IsFile(f, as) /\ IsDir(f, ad) THEN "EISDIR"
        ELSE IF IsDir(f, ad) /\ Children(f, ad) # {} THEN "ENOTEMPTY"
        ELSE "ok"

\* the filesystem after rename(s, d) returned e: s and what lies beneath it
\* is found at d
AfterRename(f, s, d, e) ==
    LET as == Resolve(s)
        ad == Resolve(d)
        Moved(q) == ad \o SubSeq(q, Len(as) + 1, Len(q))
        stay == {q \in DOMAIN f : ~Under(q, as) /\ q # ad}
        gone == {q \in DOMAIN f : Under(q, as)}
    IN  IF e # "ok" \/ as = ad THEN f
        ELSE [q \in stay \cup {Moved(r) : r \in gone} |->
                 IF q \in stay THEN f[q]
                 ELSE f[CHOOSE r \in gone : Moved(r) = q]]

\* the errnos with which open(p, O_WRONLY | O_CREAT | O_TRUNC, 0644) can return
OpenWriteErrnos(f, p) ==
    IF WalkErrno(f, p) # "ok" THEN {WalkErrno(f, p)}
    ELSE IF IsDir(f, Resolve(p)) THEN {"EISDIR"}
    ELSE {"ok", "EACCES"}

\* the filesystem after that open returned e: the file exists and is empty
AfterOpenWrite(f, p, e) ==
    IF e # "ok" THEN f
    ELSE IF IsFile(f, Resolve(p)) THEN [f EXCEPT ![Resolve(p)].data = <<>>]
    ELSE WithNode(f, Resolve(p), FileNode(<<>>))

\* the filesystem after write() put bytes at the end of the file p names
AfterWrite(f, p, bytes) == [f EXCEPT ![Resolve(p)].data = @ \o bytes]

\* the errnos with which unlink(p) can return
UnlinkErrnos(f, p) ==
    IF WalkErrno(f, p) # "ok" THEN {WalkErrno(f, p)}
    ELSE IF ~Exists(f, Resolve(p)) THEN {"ENOENT"}
    ELSE IF IsDir(f, Resolve(p)) THEN {"EISDIR"}
    ELSE {"ok", "EACCES"}

\* the filesystem after unlink(p) returned e
AfterUnlink(f, p, e) == IF e = "ok" THEN WithoutNode(f, Resolve(p)) ELSE f

----------------------------------------------------------------------------
(* mv.                                                                     *)

\* char buffer[4096] in mvCommand
MvBufferSize == 4096

\* src.substr(src.find_last_of("/\\") + 1)
Basename(src) == SubSeq(src, FindLastOf(src, "/") + 1, Len(src))

\* the destination mvCommand renames to: into dest when dest is a directory
MvDest(f, src, dest) ==
    IF dest # <<>> /\ WalkErrno(f, dest) = "ok" /\ IsDir(f, Resolve(dest))
    THEN (IF dest[Len(dest)] # "/" THEN dest \o <<"/">> ELSE dest) \o Basename(src)
    ELSE dest

\* mvCommand up to the copy loop: the rename, and the two opens of the fallback
MvBegin ==
    /\ cmd = "mv" /\ pc = "start"
    /\ IF Len(args) # 2
       THEN /\ result' = CommandResult(1, <<>>, "mv: requires exactly two arguments: source and destination")
            /\ pc' = "done"
            /\ UNCHANGED <<loc, fs, log, fds>>
       ELSE LET src  == args[1]
                dest == MvDest(fs, args[1], args[2])
                e    == RenameErrno(fs, src, dest)
                l1   == [src |-> src, dest |-> dest, offset |-> 0, readFailed |-> FALSE,
                         exdev |-> e = "EXDEV", unlinked |-> "no"]
            IN  IF e = "ok"
                THEN /\ fs' = AfterRename(fs, src, dest, e)
                     /\ log' = Append(log, Call("rename", src, e))
                     /\ result' = CommandResult(0, <<>>, "")
                     /\ pc' = "done"
                     /\ loc' = l1
                     /\ fds' = fds
                ELSE IF e # "EXDEV"
                THEN /\ log' = Append(log, Call("rename", src, e))
                     /\ result' = CommandResult(1, <<>>, "mv: failed to move")
                     /\ pc' = "done"
                     /\ loc' = l1
                     /\ UNCHANGED <<fs, fds>>
                ELSE IF ~CanOpenRead(fs, src)
                THEN /\ log' = Append(log, Call("rename", src, e))
                     /\ result' = CommandResult(1, <<>>, "mv: cannot open source file")
                     /\ pc' = "done"
                     /\ loc' = l1
                     /\ UNCHANGED <<fs, fds>>
                ELSE \E oe \in OpenWriteErrnos(fs, dest) :
                       /\ fs' = AfterOpenWrite(fs, dest, oe)
                       /\ log' = log \o <<Call("rename", src, e), Call("open", dest, oe)>>
                       /\ loc' = l1
                       /\ IF oe # "ok"
                          THEN /\ result' = CommandResult(1, <<>>, "mv: cannot create destination file")
                               /\ pc' = "done"
                               /\ fds' = fds
                          ELSE /\ pc' = "mv_copy"
                               /\ fds' = fds + 2
                               /\ result' = result
    /\ UNCHANGED <<cmd, args, cwd, hist, env, term>>

\* one turn of the copy loop: a read() of n > 0 bytes and the write() of them,
\* which puts w of them in the destination
MvCopy ==
    /\ cmd = "mv" /\ pc = "mv_copy"
    /\ LET data == FileData(fs, loc.src)
       IN  \E n \in 1..Min(MvBufferSize, Len(data) - loc.offset) :
           \E w \in 0..n :
             /\ fs' = AfterWrite(fs, loc.dest, SubSeq(data, loc.offset + 1, loc.offset + w))
             /\ log' = Append(log, Call("write", loc.dest, IF w = n THEN "ok" ELSE "ENOSPC"))
             /\ loc' = [loc EXCEPT !.offset = @ + n]
             /\ IF w # n
                THEN /\ fds' = fds - 2
                     /\ result' = CommandResult(1, <<>>, "mv: write error while copying")
                     /\ pc' = "done"
                ELSE UNCHANGED <<fds, result, pc>>
    /\ UNCHANGED <<cmd, args, cwd, hist, env, term>>

\* the copy loop has ended, read() having returned 0 (end of file) or -1 (an
\* error): close both, unlink the source, return
MvFinish ==
    /\ cmd = "mv" /\ pc = "mv_copy"
    /\ \E bytesRead \in {0, -1} :
         /\ bytesRead = 0 => loc.offset = Len(FileData(fs, loc.src)) /\ IsFile(fs, Resolve(loc.src))
         /\ bytesRead = -1 => loc.offset < Len(FileData(fs, loc.src)) \/ IsDir(fs, Resolve(loc.src))
         /\ \E ue \in UnlinkErrnos(fs, loc.src) :
              /\ fs' = AfterUnlink(fs, loc.src, ue)
              /\ log' = Append(log, Call("unlink", loc.src, ue))
              /\ loc' = [loc EXCEPT !.readFailed = (bytesRead = -1),
                                    !.unlinked = IF ue = "ok" THEN "yes" ELSE "failed"]
              /\ result' = IF ue # "ok"
                           THEN CommandResult(1, <<>>, "mv: copied but failed to remove original")
                           ELSE CommandResult(0, <<>>, "")
         /\ fds' = fds - 2
         /\ pc' = "done"
    /\ UNCHANGED <<cmd, args, cwd, hist, env, term>>

MvNext == MvBegin \/ MvCopy \/ MvFinish

\* longest file content drawn for mv
MaxMvLen == 3

MvByteSet == {"x", "y"}

NameE == <<"e">>
PathDG == <<"d", "/", "g">>
PathDSlash == <<"d", "/">>
PathHG == <<"h", "/", "g">>

MvArgSet ==
    {<<s, d>> : s \in {NameF, NameH, NameE, PathDG}, d \in {NameD, PathDSlash, PathDG, NameG, PathHG, NameE}}
    \cup {<<NameF>>, <<NameF, NameG, NameD>>, <<>>}

\* the filesystems mv starts from: f holds data, d is the mount point, e is a
\* directory, d/g and d/f may exist
MvFsSet ==
    LET base(data) == (Root :> DirNode) @@ (<<NameF>> :> FileNode(data))
                      @@ (<<NameD>> :> DirNode) @@ (<<NameE>> :> DirNode)
    IN  UNION {{base(data),
                base(data) @@ (<<NameD, NameG>> :> FileNode(<<"y", "y">>)),
                base(data) @@ (<<NameD, NameF>> :> FileNode(<<"x", "y", "x", "y">>)),
                base(data) @@ (<<NameD, NameF>> :> DirNode)}
               : data \in SeqsUpTo(MvByteSet, MaxMvLen)}

MvInit ==
    /\ cmd = "mv"
    /\ args \in MvArgSet
    /\ fs \in MvFsSet
    /\ cwd = Root
    /\ pc = "start"
    /\ loc = [none |-> TRUE]
    /\ result = NoResult
    /\ log = <<>>
    /\ fds = 0
    /\ hist = <<[fs |-> fs]>>
    /\ env = NoEnv
    /\ term = NoTerminal

SpecMv == MvInit /\ [][MvNext]_vars

----------------------------------------------------------------------------
(* Properties of mv.                                                       *)

\* mv has finished after rename failed with EXDEV, on a source that was a
\* regular file
MvFallbackCase ==
    /\ cmd = "mv" /\ pc = "done" /\ Len(args) = 2
    /\ loc.exdev
    /\ IsFile(hist[1].fs, Resolve(args[1]))

\* the destination holds exactly the bytes the source held before the command
MvCopyComplete ==
    /\ IsFile(hist[1].fs, Resolve(loc.src))
    /\ IsFile(fs, Resolve(loc.dest))
    /\ fs[Resolve(loc.dest)].data = hist[1].fs[Resolve(loc.src)].data

\* C6: in the EXDEV fallback, whenever mv returns status 0 the destination
\* holds exactly the bytes the source held and the source no longer exists;
\* and the source is never removed when the copy was incomplete.
C6_MvFallbackKeepsData ==
    MvFallbackCase =>
        /\ result.status = 0 => MvCopyComplete /\ ~Exists(fs, Resolve(loc.src))
        /\ ~Exists(fs, Resolve(loc.src)) => MvCopyComplete

\* C7: mv returns "copied but failed to remove original" exactly when the
\* fallback copy completed in full and the removal of the source then failed.
C7_MvCopiedButNotRemoved ==
    (cmd = "mv" /\ pc = "done" /\ Len(args) = 2) =>
        (result.error = "mv: copied but failed to remove original"
            <=> (loc.exdev /\ loc.unlinked = "failed" /\ MvCopyComplete))

----------------------------------------------------------------------------
(* chmod.                                                                  *)

\* chmod(2) keeps the low twelve bits of its mode argument (mode & 07777).
\* The int from std::stoi becomes a mode_t (modulo 2^32, a multiple of 4096)
\* first, so what is kept is the int modulo 4096, for a negative int too.
ModeMask == 4096

\* the errnos with which chmod(p, mode) can return
ChmodErrnos(f, p) ==
    IF WalkErrno(f, p) # "ok" THEN {WalkErrno(f, p)}
    ELSE IF ~Exists(f, Resolve(p)) THEN {"ENOENT"}
    ELSE {"ok", "EPERM"}

\* the filesystem after chmod(p, mode) returned e
AfterChmod(f, p, mode, e) ==
    IF e = "ok" THEN [f EXCEPT ![Resolve(p)].mode = mode % ModeMask] ELSE f

\* chmodCommand
ChmodRun ==
    /\ cmd = "chmod" /\ pc = "start"
    /\ IF Len(args) # 2
       THEN /\ result' = CommandResult(1, <<>>, "chmod: requires exactly two arguments: permissions and file")
            /\ UNCHANGED <<fs, log>>
       ELSE LET perm     == args[1]
                filename == args[2]
                n        == StoI(perm, 8)
            IN  IF n.kind # "ok"
                THEN /\ result' = CommandResult(1, <<>>, "chmod: invalid permissions format")
                     /\ UNCHANGED <<fs, log>>
                ELSE LET mode == n.value
                     IN  \E e \in ChmodErrnos(fs, filename) :
                           /\ fs' = AfterChmod(fs, filename, mode, e)
                           /\ log' = Append(log, Call("chmod", filename, e))
                           /\ result' = IF e # "ok"
                                        THEN CommandResult(1, <<>>, "chmod: failed to change permissions")
                                        ELSE CommandResult(0, <<>>, "")
    /\ pc' = "done"
    /\ UNCHANGED <<cmd, args, cwd, loc, fds, hist, env, term>>

ChmodNext == ChmodRun

\* longest permission token drawn for chmod
MaxPermLen == 3

PermByteSet == {"7", "5", "0", "8", "x", "-"}

ChmodArgSet ==
    {<<perm, file>> : perm \in SeqsUpTo(PermByteSet, MaxPermLen) \ {<<>>}, file \in {NameF, NameH}}
    \cup {<<<<"7", "5", "5">>>>, <<>>}

ChmodInit ==
    /\ cmd = "chmod"
    /\ args \in ChmodArgSet
    /\ fs = (Root :> DirNode) @@ (<<NameF>> :> FileNode(<<>>))
    /\ cwd = Root
    /\ pc = "start"
    /\ loc = [none |-> TRUE]
    /\ result = NoResult
    /\ log = <<>>
    /\ fds = 0
    /\ hist = <<[fs |-> fs]>>
    /\ env = NoEnv
    /\ term = NoTerminal

SpecChmod == ChmodInit /\ [][ChmodNext]_vars

----------------------------------------------------------------------------
(* Properties of chmod.                                                    *)

\* a token made up entirely of octal digits
AllOctal(tok) == tok # <<>> /\ \A k \in 1..Len(tok) : IsDigitOf(tok[k], 8)

\* C10: chmod parses its permission token strictly as a base-8 integer: a
\* token that is not made up entirely of octal digits gives status 1 and
\* leaves the file's mode unchanged; a token that is sets the file's mode to
\* exactly that octal value (when chmod(2) itself succeeds).
C10_ChmodStrictOctal ==
    (cmd = "chmod" /\ pc = "done" /\ Len(args) = 2 /\ IsFile(fs, Resolve(args[2]))) =>
        IF AllOctal(args[1])
        THEN result.status = 0 =>
                fs[Resolve(args[2])].mode = DigitsValue(args[1], 1, Len(args[1]), 8)
        ELSE /\ result.status = 1
             /\ fs[Resolve(args[2])].mode = hist[1].fs[Resolve(args[2])].mode

----------------------------------------------------------------------------
(* chown.                                                                  *)

\* one entry of the log of a command over several targets: depth is the
\* nesting of the handler call that made it, entries what opendir listed
SubCall(op, p, e, depth, entries) ==
    [op |-> op, path |-> p, target |-> Resolve(p), err |-> e,
     depth |-> depth, entries |-> entries]

UserU == <<"u">>
UserV == <<"v">>

\* getpwnam: the uid of a user name, -1 for an unknown one
Getpwnam(username) == IF username = UserU THEN 1000 ELSE -1

\* the errno with which stat(p) returns
StatErrno(f, p) ==
    IF WalkErrno(f, p) # "ok" THEN WalkErrno(f, p)
    ELSE IF ~Exists(f, Resolve(p)) THEN "ENOENT"
    ELSE "ok"

\* the errnos with which chown(p, owner, -1) can return
ChownErrnos(f, p) == IF StatErrno(f, p) # "ok" THEN {StatErrno(f, p)} ELSE {"ok", "EPERM"}

\* the filesystem after chown(p, owner, -1) returned e
AfterChown(f, p, owner, e) ==
    IF e = "ok" THEN [f EXCEPT ![Resolve(p)].owner = owner] ELSE f

\* a variant of CallFailed under which no call is seen to fail
CallNeverFailed(e) == FALSE

\* a system call returned -1
CallFailed(e) == e # "ok"

\* chownCommand up to the loop over the files
ChownBegin ==
    /\ cmd = "chown" /\ pc = "start"
    /\ IF args = <<>>
       THEN /\ result' = CommandResult(1, <<>>, "chown: missing arguments")
            /\ pc' = "done" /\ loc' = loc
       ELSE IF Len(args) < 2
       THEN /\ result' = CommandResult(1, <<>>, "chown: missing operand")
            /\ pc' = "done" /\ loc' = loc
       ELSE IF Getpwnam(args[1]) = -1
       THEN /\ result' = CommandResult(1, <<>>, "chown: no such user found")
            /\ pc' = "done" /\ loc' = loc
       ELSE /\ loc' = [newOwner |-> Getpwnam(args[1]), i |-> 2]
            /\ pc' = "chown_file"
            /\ result' = result
    /\ UNCHANGED <<cmd, args, fs, cwd, log, fds, hist, env, term>>

\* one turn of the loop over the files: stat, then chown
ChownFile ==
    /\ cmd = "chown" /\ pc = "chown_file"
    /\ IF loc.i > Len(args)
       THEN /\ result' = CommandResult(0, <<>>, "")
            /\ pc' = "done"
            /\ UNCHANGED <<loc, fs, log>>
       ELSE LET file == args[loc.i]
                se   == StatErrno(fs, file)
            IN  IF CallFailed(se)
                THEN /\ log' = Append(log, SubCall("stat", file, se, 0, {}))
                     /\ result' = CommandResult(1, <<>>, "chown: cannot access")
                     /\ pc' = "done"
                     /\ UNCHANGED <<loc, fs>>
                ELSE \E e \in ChownErrnos(fs, file) :
                       /\ fs' = AfterChown(fs, file, loc.newOwner, e)
                       /\ log' = Append(log, SubCall("chown", file, e, 0, {}))
                       /\ IF CallFailed(e)
                          THEN /\ result' = CommandResult(1, <<>>, "chown: failed to change owner")
                               /\ pc' = "done"
                               /\ loc' = loc
                          ELSE /\ loc' = [loc EXCEPT !.i = @ + 1]
                               /\ UNCHANGED <<pc, result>>
    /\ UNCHANGED <<cmd, args, cwd, fds, hist, env, term>>

----------------------------------------------------------------------------
(* cp.                                                                     *)

\* char buffer[1024] in cpCommand
CpBufferSize == 1024

\* the path cpCommand writes source src to
CpFinalDest(dest, destIsDir, src) ==
    IF destIsDir THEN dest \o <<"/">> \o Basename(src) ELSE dest

\* a variant of CpTargetNotDirectory that lets two sources through
CpTargetNotDirectoryOverTwo(numSources, destIsDir) == numSources > 2 /\ ~destIsDir

\* numSources > 1 && !destIsDir: several sources need a directory
CpTargetNotDirectory(numSources, destIsDir) == numSources > 1 /\ ~destIsDir

\* cpCommand up to the loop over the sources
CpBegin ==
    /\ cmd = "cp" /\ pc = "start"
    /\ IF args = <<>>
       THEN /\ result' = CommandResult(1, <<>>, "cp: missing operand")
            /\ pc' = "done" /\ loc' = loc
       ELSE IF Len(args) = 1
       THEN /\ result' = CommandResult(1, <<>>, "cp: missing destination file operand")
            /\ pc' = "done" /\ loc' = loc
       ELSE LET dest      == args[Len(args)]
                destIsDir == StatErrno(fs, dest) = "ok" /\ IsDir(fs, Resolve(dest))
                numSources == Len(args) - 1
            IN  IF CpTargetNotDirectory(numSources, destIsDir)
                THEN /\ result' = CommandResult(1, <<>>, "cp: target is not a directory")
                     /\ pc' = "done" /\ loc' = loc
                ELSE /\ loc' = [dest |-> dest, destIsDir |-> destIsDir,
                                numSources |-> numSources, i |-> 1,
                                src |-> <<>>, finalDest |-> <<>>, offset |-> 0]
                     /\ pc' = "cp_source"
                     /\ result' = result
    /\ UNCHANGED <<cmd, args, fs, cwd, log, fds, hist, env, term>>

\* the head of the loop over the sources: the directory test and the two opens
CpSource ==
    /\ cmd = "cp" /\ pc = "cp_source"
    /\ IF loc.i > loc.numSources
       THEN /\ result' = CommandResult(0, <<>>, "")
            /\ pc' = "done"
            /\ UNCHANGED <<loc, fs, log, fds>>
       ELSE LET src       == args[loc.i]
                finalDest == CpFinalDest(loc.dest, loc.destIsDir, src)
            IN  IF StatErrno(fs, src) = "ok" /\ IsDir(fs, Resolve(src))
                THEN /\ result' = CommandResult(1, <<>>, "cp: omitting directory")
                     /\ pc' = "done"
                     /\ UNCHANGED <<loc, fs, log, fds>>
                ELSE IF ~CanOpenRead(fs, src)
                THEN /\ log' = Append(log, SubCall("open", src, StatErrno(fs, src), 0, {}))
                     /\ result' = CommandResult(1, <<>>, "cp: cannot open source file")
                     /\ pc' = "done"
                     /\ UNCHANGED <<loc, fs, fds>>
                ELSE \E oe \in OpenWriteErrnos(fs, finalDest) :
                       /\ fs' = AfterOpenWrite(fs, finalDest, oe)
                       /\ log' = Append(log, SubCall("creat", finalDest, oe, 0, {}))
                       /\ IF CallFailed(oe)
                          THEN /\ result' = CommandResult(1, <<>>, "cp: cannot create destination file")
                               /\ pc' = "done"
                               /\ UNCHANGED <<loc, fds>>
                          ELSE /\ loc' = [loc EXCEPT !.src = src, !.finalDest = finalDest,
                                                     !.offset = 0]
                               /\ fds' = fds + 2
                               /\ pc' = "cp_copy"
                               /\ result' = result
    /\ UNCHANGED <<cmd, args, cwd, hist, env, term>>

\* one turn of the copy loop: a read() of n > 0 bytes and the write() of them,
\* which puts w of them in the destination
CpCopy ==
    /\ cmd = "cp" /\ pc = "cp_copy"
    /\ LET data == FileData(fs, loc.src)
       IN  \E n \in 1..Min(CpBufferSize, Len(data) - loc.offset) :
           \E w \in 0..n :
             /\ fs' = AfterWrite(fs, loc.finalDest, SubSeq(data, loc.offset + 1, loc.offset + w))
             /\ log' = Append(log, SubCall("write", loc.finalDest,
                                           IF w = n THEN "ok" ELSE "ENOSPC", 0, {}))
             /\ loc' = [loc EXCEPT !.offset = @ + n]
             /\ IF w # n
                THEN /\ fds' = fds - 2
                     /\ result' = CommandResult(1, <<>>, "cp: write error")
                     /\ pc' = "done"
                ELSE UNCHANGED <<fds, result, pc>>
    /\ UNCHANGED <<cmd, args, cwd, hist, env, term>>

\* the copy loop has ended, read() having returned 0 (end of file) or -1 (an
\* error): the error return, or close both and go on to the next source
CpEndOfFile ==
    /\ cmd = "cp" /\ pc = "cp_copy"
    /\ \E bytesRead \in {0, -1} :
         /\ bytesRead = 0 => loc.offset = Len(FileData(fs, loc.src))
         /\ bytesRead = -1 => loc.offset < Len(FileData(fs, loc.src))
         /\ fds' = fds - 2
         /\ IF bytesRead = -1
            THEN /\ log' = Append(log, SubCall("read", loc.src, "EIO", 0, {}))
                 /\ result' = CommandResult(1, <<>>, "cp: read error")
                 /\ pc' = "done"
                 /\ loc' = loc
            ELSE /\ loc' = [loc EXCEPT !.i = @ + 1]
                 /\ pc' = "cp_source"
                 /\ UNCHANGED <<result, log>>
    /\ UNCHANGED <<cmd, args, fs, cwd, hist, env, term>>

----------------------------------------------------------------------------
(* rm.                                                                     *)

TokR == <<"-", "r">>

\* the flag loop of rmCommand; currentArg and the positions of a are 1-based
RECURSIVE RmParseFlags(_, _, _)
RmParseFlags(a, currentArg, recursive) ==
    IF currentArg <= Len(a) /\ StartsWithDash(a[currentArg])
    THEN IF Find(a[currentArg], "r") # 0
         THEN IF currentArg + 1 > Len(a)
              THEN [kind |-> "return", res |-> CommandResult(1, <<>>, "rm: missing operand after")]
              ELSE RmParseFlags(a, currentArg + 1, TRUE)
         ELSE [kind |-> "return", res |-> CommandResult(1, <<>>, "rm: invalid option")]
    ELSE [kind |-> "ok", currentArg |-> currentArg, recursive |-> recursive]

\* rmCommand before its loop over the operands
RmParse(a) ==
    IF a = <<>> THEN [kind |-> "return", res |-> CommandResult(1, <<>>, "rm: missing operand")]
    ELSE RmParseFlags(a, 1, FALSE)

\* the locals of one call of rmCommand, at the head of its loop over the operands
RmFrame(a, p) ==
    [args |-> a, recursive |-> p.recursive, currentArg |-> p.currentArg,
     phase |-> "operand", entries |-> {}]

\* the errnos with which opendir(p) can return on a directory
OpendirErrnos(f, p) == {"ok", "EACCES"}

RmTop == loc.stack[Len(loc.stack)]
RmDepth == Len(loc.stack) - 1

\* the stack with the locals of the running call replaced by fr
RmWithTop(fr) == [loc EXCEPT !.stack[Len(loc.stack)] = fr]

\* the running call returns res: to the interaction loop, or to the readdir
\* loop of the call that made it, which drops the value
RmReturns(res) ==
    IF Len(loc.stack) = 1
    THEN /\ result' = res
         /\ pc' = "done"
         /\ loc' = loc
    ELSE /\ loc' = [loc EXCEPT !.stack = SubSeq(@, 1, Len(@) - 1)]
         /\ UNCHANGED <<result, pc>>

\* the running call goes on with frame fr
RmGoesOn(fr) ==
    /\ loc' = RmWithTop(fr)
    /\ UNCHANGED <<result, pc>>

\* rmCommand, called by the interaction loop, up to its loop over the operands
RmBegin ==
    /\ cmd = "rm" /\ pc = "start"
    /\ LET p == RmParse(args)
       IN  IF p.kind # "ok"
           THEN /\ result' = p.res
                /\ pc' = "done" /\ loc' = loc
           ELSE /\ loc' = [stack |-> <<RmFrame(args, p)>>]
                /\ pc' = "rm"
                /\ result' = result
    /\ UNCHANGED <<cmd, args, fs, cwd, log, fds, hist, env, term>>

\* the head of the loop over the operands: stat, then unlink for a file,
\* opendir for a directory
RmOperand ==
    /\ cmd = "rm" /\ pc = "rm" /\ RmTop.phase = "operand"
    /\ IF RmTop.currentArg > Len(RmTop.args)
       THEN /\ RmReturns(CommandResult(0, <<>>, ""))
            /\ UNCHANGED <<fs, log, fds>>
       ELSE LET path == RmTop.args[RmTop.currentArg]
                se   == StatErrno(fs, path)
            IN  IF CallFailed(se)
                THEN /\ log' = Append(log, SubCall("stat", path, se, RmDepth, {}))
                     /\ RmReturns(CommandResult(1, <<>>, "rm: cannot access"))
                     /\ UNCHANGED <<fs, fds>>
                ELSE IF IsDir(fs, Resolve(path))
                THEN IF RmTop.recursive
                     THEN \E e \in OpendirErrnos(fs, path) :
                            /\ log' = log \o <<SubCall("stat", path, se, RmDepth, {}),
                                               SubCall("opendir", path, e, RmDepth,
                                                       IF e = "ok" THEN Children(fs, Resolve(path))
                                                       ELSE {})>>
                            /\ fs' = fs
                            /\ IF CallFailed(e)
                               THEN /\ RmReturns(CommandResult(1, <<>>, "rm: cannot open directory"))
                                    /\ fds' = fds
                               ELSE /\ RmGoesOn([RmTop EXCEPT !.phase = "readdir",
                                                             !.entries = Children(fs, Resolve(path))])
                                    /\ fds' = fds + 1
                     ELSE /\ log' = Append(log, SubCall("stat", path, se, RmDepth, {}))
                          /\ RmReturns(CommandResult(1, <<>>, "rm: is a directory"))
                          /\ UNCHANGED <<fs, fds>>
                ELSE \E e \in UnlinkErrnos(fs, path) :
                       /\ log' = log \o <<SubCall("stat", path, se, RmDepth, {}),
                                          SubCall("unlink", path, e, RmDepth, {})>>
                       /\ fs' = AfterUnlink(fs, path, e)
                       /\ fds' = fds
                       /\ IF CallFailed(e)
                          THEN RmReturns(CommandResult(1, <<>>, "rm: cannot remove"))
                          ELSE RmGoesOn([RmTop EXCEPT !.currentArg = @ + 1])
    /\ UNCHANGED <<cmd, args, cwd, hist, env, term>>

\* one turn of the readdir loop: rmCommand calls itself on the entry
RmReaddir ==
    /\ cmd = "rm" /\ pc = "rm" /\ RmTop.phase = "readdir" /\ RmTop.entries # {}
    /\ \E name \in RmTop.entries :
         LET path    == RmTop.args[RmTop.currentArg]
             subpath == path \o <<"/">> \o name
             a       == <<(IF RmTop.recursive THEN TokR ELSE <<>>), subpath>>
             p       == RmParse(a)
             caller  == RmWithTop([RmTop EXCEPT !.entries = @ \ {name}])
         IN  loc' = IF p.kind # "ok" THEN caller
                    ELSE [caller EXCEPT !.stack = Append(@, RmFrame(a, p))]
    /\ UNCHANGED <<cmd, args, fs, cwd, pc, result, log, fds, hist, env, term>>

\* a variant of RmdirFailed that lets a directory that is not empty pass
RmdirFailedUnlessNotEmpty(e) == e \notin {"ok", "ENOTEMPTY"}

\* rmdir(path.c_str()) == -1
RmdirFailed(e) == e # "ok"

\* readdir returned nullptr: closedir, then rmdir of the directory
RmCloseDir ==
    /\ cmd = "rm" /\ pc = "rm" /\ RmTop.phase = "readdir" /\ RmTop.entries = {}
    /\ LET path == RmTop.args[RmTop.currentArg]
           e    == RmdirErrno(fs, path)
       IN  /\ fs' = AfterRmdir(fs, path, e)
           /\ log' = Append(log, SubCall("rmdir", path, e, RmDepth, {}))
           /\ fds' = fds - 1
           /\ IF RmdirFailed(e)
              THEN RmReturns(CommandResult(1, <<>>, "rm: failed to remove directory"))
              ELSE RmGoesOn([RmTop EXCEPT !.currentArg = @ + 1, !.phase = "operand"])
    /\ UNCHANGED <<cmd, args, cwd, hist, env, term>>

----------------------------------------------------------------------------
(* The commands over several targets.                                      *)

\* longest content of the file f drawn for cp
MaxCpLen == 2

NameX == <<"x">>
NameY == <<"y">>
NameS == <<"s">>
NameZ == <<"z">>

\* the contents of directory d that rm starts from
MultiDirSet ==
    {<<>> :> DirNode,
     (<<NameX>> :> FileNode(<<>>)),
     (<<NameX>> :> FileNode(<<>>)) @@ (<<NameY>> :> FileNode(<<>>)),
     (<<NameX>> :> FileNode(<<>>)) @@ (<<NameS>> :> DirNode),
     (<<NameS>> :> DirNode) @@ (<<NameS, NameZ>> :> FileNode(<<>>)) @@ (<<NameY>> :> FileNode(<<>>)),
     (<<NameS>> :> DirNode) @@ (<<NameS, NameZ>> :> DirNode),
     (<<NameX>> :> FileNode(<<>>)) @@ (<<NameY>> :> FileNode(<<>>)) @@ (<<NameZ>> :> FileNode(<<>>))}

\* the filesystem with files f and g and with directory d holding sub
MultiFs(data, sub) ==
    LET moved == {<<NameD>> \o q : q \in DOMAIN sub}
    IN  [ap \in {Root, <<NameF>>, <<NameG>>, <<NameD>>} \cup moved |->
            IF ap = <<NameF>> THEN FileNode(data)
            ELSE IF ap = <<NameG>> THEN FileNode(<<"y">>)
            ELSE IF ap \in {Root, <<NameD>>} THEN DirNode
            ELSE sub[SubSeq(ap, 2, Len(ap))]]

PathDX == <<"d", "/", "x">>

ChownArgSet ==
    {<<UserU, NameF, NameG>>, <<UserU, NameF, NameH, NameG>>, <<UserU, NameF, NameG, NameD>>,
     <<UserU, NameH>>, <<UserV, NameF>>, <<UserU>>, <<>>}

CpArgSet ==
    {<<NameF, NameG>>, <<NameF, NameG, NameD>>, <<NameF, NameG, NameH>>, <<NameH, NameF, NameD>>,
     <<NameF, NameH, NameD>>, <<NameD, NameG>>, <<NameF, NameD, NameD>>, <<NameF, NameF>>,
     <<NameF, PathHG>>, <<NameF, NameD>>, <<PathDX, NameD>>, <<NameF>>, <<>>,
     <<NameG, NameF, NameF>>, <<NameF, NameG, PathDX>>}

RmArgSet ==
    {<<TokR, NameD>>, <<NameD>>, <<NameF, NameG>>, <<TokR, NameF, NameD, NameG>>,
     <<NameH, NameF>>, <<NameF, NameH, NameG>>, <<TokL, NameF>>, <<TokR>>, <<>>}

MultiInit ==
    /\ cmd \in {"chown", "cp", "rm"}
    /\ args \in (IF cmd = "chown" THEN ChownArgSet ELSE IF cmd = "cp" THEN CpArgSet ELSE RmArgSet)
    /\ fs \in (IF cmd = "cp"
               THEN {MultiFs(data, (<<NameX>> :> FileNode(<<"x", "y">>))) :
                        data \in SeqsUpTo(MvByteSet, MaxCpLen)}
               ELSE {MultiFs(<<"x">>, sub) : sub \in MultiDirSet})
    /\ cwd = Root
    /\ pc = "start"
    /\ loc = [none |-> TRUE]
    /\ result = NoResult
    /\ log = <<>>
    /\ fds = 0
    /\ hist = <<[fs |-> fs]>>
    /\ env = NoEnv
    /\ term = NoTerminal

MultiNext ==
    \/ ChownBegin \/ ChownFile
    \/ CpBegin \/ CpSource \/ CpCopy \/ CpEndOfFile
    \/ RmBegin \/ RmOperand \/ RmReaddir \/ RmCloseDir

SpecMulti == MultiInit /\ [][MultiNext]_vars

----------------------------------------------------------------------------
(* Properties of the commands over several targets.                        *)

MultiCase == cmd \in {"chown", "cp", "rm"}

\* C8 as claimed: in a multi-target operation (chown over several files, cp
\* over several sources, recursive rm over a directory's children), once one
\* sub-operation fails no later sub-operation is attempted and nothing more
\* is done to the filesystem: a failed call is the last call.
C8_StopAtFirstFailure ==
    MultiCase => \A j \in 1..(Len(log) - 1) : log[j].err = "ok"

\* what the successful calls did is still in place
EffectsRemain ==
    \A j \in 1..Len(log) :
        log[j].err = "ok" =>
            /\ log[j].op = "chown" => fs[log[j].target].owner = loc.newOwner
            /\ log[j].op \in {"unlink", "rmdir"} => ~Exists(fs, log[j].target)
            /\ log[j].op \in {"creat", "write"} => IsFile(fs, log[j].target)

\* every entry a successful opendir listed was handed to rmCommand, which
\* began with its stat, whatever became of the entries before it
EveryChildAttempted ==
    \A j \in 1..Len(log) :
        (log[j].op = "opendir" /\ log[j].err = "ok") =>
            \A name \in log[j].entries :
                \E k \in (j + 1)..Len(log) :
                    /\ log[k].op = "stat"
                    /\ log[k].target = Append(log[j].target, name)
                    /\ log[k].depth = log[j].depth + 1

\* C8 as amended: in chown over several files, cp over several sources and rm
\* over its operands, a failed call is the last call, and what the earlier
\* calls did remains in place.  Recursive rm over a directory's children
\* does not stop: the value of the call on a child is dropped, so only calls
\* made for a child (depth > 0) are followed by other calls, every child is
\* still attempted, and the failure shows as status 1 at the end.
C8_StopAtFirstFailureAmended ==
    MultiCase =>
        /\ \A j \in 1..(Len(log) - 1) : log[j].err # "ok" => log[j].depth > 0
        /\ \A j \in 1..(Len(log) - 1) : log[j].err # "ok" => cmd = "rm"
        /\ EffectsRemain
        /\ (cmd = "rm" /\ pc = "done") =>
              /\ EveryChildAttempted
              /\ (\E j \in 1..Len(log) : log[j].err # "ok") => result.status = 1

\* C8 witness: rm -r has finished with status 1; the removal of one child
\* failed and a child handled after it was removed all the same
C8_Witness ==
    /\ cmd = "rm" /\ pc = "done"
    /\ Returned /\ result.status = 1
    /\ \E j, k \in 1..Len(log) :
          /\ j < k
          /\ log[j].op = "unlink" /\ log[j].err # "ok" /\ log[j].depth = 1
          /\ log[k].op = "unlink" /\ log[k].err = "ok" /\ log[k].depth = 1
          /\ ~Exists(fs, log[k].target) /\ Exists(fs, log[j].target)

----------------------------------------------------------------------------
(* help, echo, pause, clr, pwd, environ, quit.                             *)

\* the text helpCommand returns, one element standing for the whole listing
HelpText == <<"Available Commands: ...">>

\* helpCommand
HelpRun ==
    /\ cmd = "help" /\ pc = "start"
    /\ result' = IF args # <<>>
                 THEN CommandResult(1, <<>>, "help: this command takes no arguments")
                 ELSE CommandResult(0, HelpText, "")
    /\ pc' = "done"
    /\ UNCHANGED <<cmd, args, fs, cwd, loc, log, fds, hist, env, term>>

\* the loop of echoCommand: every argument followed by one space
RECURSIVE EchoOut(_)
EchoOut(a) == IF a = <<>> THEN <<>> ELSE a[1] \o <<" ">> \o EchoOut(Tail(a))

\* echoCommand
EchoRun ==
    /\ cmd = "echo" /\ pc = "start"
    /\ result' = CommandResult(0, EchoOut(args), "")
    /\ pc' = "done"
    /\ UNCHANGED <<cmd, args, fs, cwd, loc, log, fds, hist, env, term>>

\* std::cin.ignore(max, '\n'): one more line is taken from stdin and dropped,
\* or stdin is found exhausted
CinIgnore(t, more) ==
    IF t.eof \/ ~more THEN [t EXCEPT !.eof = TRUE]
    ELSE [t EXCEPT !.lines = @ + 1]

\* pauseCommand
PauseRun ==
    /\ cmd = "pause" /\ pc = "start"
    /\ IF args # <<>>
       THEN /\ result' = CommandResult(1, <<>>, "pause: this command takes no arguments")
            /\ term' = term
       ELSE /\ \E more \in BOOLEAN : term' = CinIgnore(term, more)
            /\ result' = CommandResult(0, <<>>, "")
    /\ pc' = "done"
    /\ UNCHANGED <<cmd, args, fs, cwd, loc, log, fds, hist, env>>

\* the marker that tells the interaction loop not to print a newline
NoNlSentinel == <<"_", "_", "N", "O", "_", "N", "L", "_", "_">>

\* the escape sequence that clears the screen: "\e[H\e[J"
ClearScreen == <<"\\e", "[", "H", "\\e", "[", "J">>

\* clrCommand
ClrRun ==
    /\ cmd = "clr" /\ pc = "start"
    /\ result' = IF args # <<>>
                 THEN CommandResult(1, <<>>, "clr: takes no arguments")
                 ELSE CommandResult(0, NoNlSentinel \o ClearScreen, "")
    /\ pc' = "done"
    /\ UNCHANGED <<cmd, args, fs, cwd, loc, log, fds, hist, env, term>>

\* the path string getcwd writes for an absolute path
RECURSIVE PathString(_)
PathString(ap) ==
    IF ap = <<>> THEN <<"/">>
    ELSE IF Len(ap) = 1 THEN <<"/">> \o ap[1]
    ELSE PathString(SubSeq(ap, 1, Len(ap) - 1)) \o <<"/">> \o ap[Len(ap)]

\* the errnos with which getcwd can return
GetcwdErrnos == {"ok", "EACCES"}

\* pwdCommand
PwdRun ==
    /\ cmd = "pwd" /\ pc = "start"
    /\ IF args # <<>>
       THEN result' = CommandResult(1, <<>>, "pwd: this command takes no arguments")
       ELSE \E e \in GetcwdErrnos :
              result' = IF e # "ok"
                        THEN CommandResult(1, <<>>, "pwd: failed to get current directory")
                        ELSE CommandResult(0, PathString(cwd), "")
    /\ pc' = "done"
    /\ UNCHANGED <<cmd, args, fs, cwd, loc, log, fds, hist, env, term>>

\* the entries of environ, each followed by a newline
EnvironOut(e) ==
    IF e.HOME.set THEN <<"H", "O", "M", "E", "=">> \o e.HOME.value \o <<NL>> ELSE <<>>

\* environCommand
EnvironRun ==
    /\ cmd = "environ" /\ pc = "start"
    /\ result' = IF args # <<>>
                 THEN CommandResult(1, <<>>, "environ: this command takes no arguments")
                 ELSE CommandResult(0, stripTrailingNewline(EnvironOut(env)), "")
    /\ pc' = "done"
    /\ UNCHANGED <<cmd, args, fs, cwd, loc, log, fds, hist, env, term>>

\* quitCommand: with no argument the farewell line is printed and std::exit(0)
\* ends the process; nothing is returned
QuitRun ==
    /\ cmd = "quit" /\ pc = "start"
    /\ IF args # <<>>
       THEN /\ result' = CommandResult(1, <<>>, "quit: this command takes no arguments")
            /\ pc' = "done"
            /\ term' = term
       ELSE /\ term' = [term EXCEPT !.out = @ \o <<"[Shell Terminated]", NL>>]
            /\ pc' = "exited"
            /\ result' = result
    /\ UNCHANGED <<cmd, args, fs, cwd, loc, log, fds, hist, env>>

----------------------------------------------------------------------------
(* touch.                                                                  *)

\* the errnos with which open(p, O_CREAT | O_WRONLY, 0644) can return on a
\* path stat did not find
OpenCreateErrnos(f, p) ==
    IF WalkErrno(f, p) # "ok" THEN {WalkErrno(f, p)} ELSE {"ok", "EACCES"}

\* the errnos with which utime(p, times) can return on an entry stat found
UtimeErrnos(f, p) == {"ok", "EPERM"}

\* touchCommand
TouchRun ==
    /\ cmd = "touch" /\ pc = "start"
    /\ IF args = <<>> \/ Len(args) > 1
       THEN /\ result' = CommandResult(1, <<>>, "touch: invalid arguments passed")
            /\ UNCHANGED <<fs, log>>
       ELSE LET fileName == args[1]
                exists   == StatErrno(fs, fileName) = "ok"
            IN  IF ~exists
                THEN \E e \in OpenCreateErrnos(fs, fileName) :
                       /\ fs' = AfterOpenWrite(fs, fileName, e)
                       /\ log' = Append(log, Call("creat", fileName, e))
                       /\ result' = IF e # "ok"
                                    THEN CommandResult(1, <<>>, "touch: cannot create file")
                                    ELSE CommandResult(0, <<>>, "")
                ELSE \E e \in UtimeErrnos(fs, fileName) :
                       /\ fs' = fs
                       /\ log' = Append(log, Call("utime", fileName, e))
                       /\ result' = IF e # "ok"
                                    THEN CommandResult(1, <<>>, "touch: failed to update timestamps")
                                    ELSE CommandResult(0, <<>>, "")
    /\ pc' = "done"
    /\ UNCHANGED <<cmd, args, cwd, loc, fds, hist, env, term>>

----------------------------------------------------------------------------
(* cd.                                                                     *)

\* the errnos with which chdir(p) can return
ChdirErrnos(f, p) ==
    IF StatErrno(f, p) # "ok" THEN {StatErrno(f, p)}
    ELSE IF ~IsDir(f, Resolve(p)) THEN {"ENOTDIR"}
    ELSE {"ok", "EACCES"}

\* what std::string(home) does when home is a null pointer, which the
\* language leaves undefined: libstdc++ throws std::logic_error, other
\* libraries read through the null pointer and the process is killed
NullStringOutcomes == {"logic_error", "crash"}

\* the path cdCommand hands to chdir: a leading '~' is replaced by home
CdPath(path, home) ==
    IF path # <<>> /\ path[1] = "~" THEN home.value \o Tail(path) ELSE path

\* a variant of CdOneArgument that takes the first of several arguments
CdOneArgumentOrMore(a) == Len(a) >= 1

\* args.size() == 1
CdOneArgument(a) == Len(a) = 1

\* cdCommand
CdRun ==
    /\ cmd = "cd" /\ pc = "start"
    /\ LET home == env.HOME
       IN  IF args = <<>>
           THEN \E e \in (IF home.set THEN ChdirErrnos(fs, home.value) ELSE {"EFAULT"}) :
                  /\ log' = Append(log, Call("chdir", home.value, e))
                  /\ IF e # "ok"
                     THEN /\ result' = CommandResult(1, <<>>, "cd: failed to change directory")
                          /\ cwd' = cwd
                     ELSE /\ result' = CommandResult(0, <<>>, "")
                          /\ cwd' = Resolve(home.value)
                  /\ pc' = "done"
           ELSE IF CdOneArgument(args)
           THEN IF args[1] # <<>> /\ args[1][1] = "~" /\ ~home.set
                THEN \E o \in NullStringOutcomes :
                       /\ IF o = "crash"
                          THEN /\ pc' = "crashed"
                               /\ result' = result
                          ELSE /\ pc' = "done"
                               /\ result' = Thrown("std::logic_error")
                       /\ UNCHANGED <<cwd, log>>
                ELSE LET path == CdPath(args[1], home)
                     IN  \E e \in ChdirErrnos(fs, path) :
                           /\ log' = Append(log, Call("chdir", path, e))
                           /\ IF e # "ok"
                              THEN /\ result' = CommandResult(1, <<>>, "cd: failed to change directory: path")
                                   /\ cwd' = cwd
                              ELSE /\ result' = CommandResult(0, <<>>, "")
                                   /\ cwd' = Resolve(path)
                           /\ pc' = "done"
           ELSE /\ result' = CommandResult(1, <<>>, "cd: too many arguments")
                /\ pc' = "done"
                /\ UNCHANGED <<cwd, log>>
    /\ UNCHANGED <<cmd, args, fs, loc, fds, hist, env, term>>

----------------------------------------------------------------------------
(* cat.                                                                    *)

\* const size_t bufferSize = 4096 in catCommand
CatBufferSize == 4096

\* catCommand up to the loop over the files
CatBegin ==
    /\ cmd = "cat" /\ pc = "start"
    /\ IF args = <<>>
       THEN /\ result' = CommandResult(1, <<>>, "cat: missing file operand")
            /\ pc' = "done" /\ loc' = loc
       ELSE /\ loc' = [i |-> 1, out |-> <<>>, filename |-> <<>>, offset |-> 0]
            /\ pc' = "cat_file"
            /\ result' = result
    /\ UNCHANGED <<cmd, args, fs, cwd, log, fds, hist, env, term>>

\* the head of the loop over the files: open
CatFile ==
    /\ cmd = "cat" /\ pc = "cat_file"
    /\ IF loc.i > Len(args)
       THEN /\ result' = CommandResult(0, stripTrailingNewline(loc.out), "")
            /\ pc' = "done"
            /\ UNCHANGED <<loc, fds>>
       ELSE IF ~CanOpenRead(fs, args[loc.i])
       THEN /\ result' = CommandResult(1, <<>>, "cat: cannot open")
            /\ pc' = "done"
            /\ UNCHANGED <<loc, fds>>
       ELSE /\ loc' = [loc EXCEPT !.filename = args[loc.i], !.offset = 0]
            /\ fds' = fds + 1
            /\ pc' = "cat_read"
            /\ result' = result
    /\ UNCHANGED <<cmd, args, fs, cwd, log, hist, env, term>>

\* one read() that returns n > 0 bytes, appended to out
CatRead ==
    /\ cmd = "cat" /\ pc = "cat_read"
    /\ LET data == FileData(fs, loc.filename)
       IN  \E n \in 1..Min(CatBufferSize, Len(data) - loc.offset) :
             loc' = [loc EXCEPT !.out = @ \o SubSeq(data, loc.offset + 1, loc.offset + n),
                                !.offset = @ + n]
    /\ UNCHANGED <<cmd, args, fs, cwd, pc, result, log, fds, hist, env, term>>

\* the values with which the read() that ends the loop can return: 0 at the
\* end of a file, -1 on a directory (EISDIR) or on an error of the device
CatLastRead(f, filename, offset) ==
    IF IsDir(f, Resolve(filename)) THEN {-1}
    ELSE IF offset = Len(FileData(f, filename)) THEN {0}
    ELSE {-1}

\* the read loop has ended: the error return, which leaves fd open, or the
\* newline, close(fd) and the next file
CatEndOfFile ==
    /\ cmd = "cat" /\ pc = "cat_read"
    /\ \E bytesRead \in CatLastRead(fs, loc.filename, loc.offset) :
         IF bytesRead = -1
         THEN /\ result' = CommandResult(1, <<>>, "cat: error reading")
              /\ pc' = "done"
              /\ UNCHANGED <<loc, fds>>
         ELSE /\ loc' = [loc EXCEPT !.out = @ \o <<NL>>, !.i = @ + 1]
              /\ fds' = fds - 1
              /\ pc' = "cat_file"
              /\ result' = result
    /\ UNCHANGED <<cmd, args, fs, cwd, log, hist, env, term>>

----------------------------------------------------------------------------
(* ls, dir.                                                                *)

TokA == <<"-", "a">>
TokAlmostAll == <<"-", "A">>
NameDot == <<".">>
NameDotDot == <<".", ".">>

\* the loop of lsCommand over its arguments: the flags, the paths, or the
\* first invalid flag
RECURSIVE LsParse(_, _)
LsParse(a, o) ==
    IF a = <<>> THEN [kind |-> "ok", opts |-> o]
    ELSE LET arg == a[1]
         IN  IF arg = TokA THEN LsParse(Tail(a), [o EXCEPT !.showAll = TRUE])
             ELSE IF arg = TokAlmostAll THEN LsParse(Tail(a), [o EXCEPT !.almostAll = TRUE])
             ELSE IF arg = TokL THEN LsParse(Tail(a), [o EXCEPT !.longList = TRUE])
             ELSE IF Len(arg) > 1 /\ arg[1] = "-"
             THEN [kind |-> "return", res |-> CommandResult(1, <<>>, "ls: invalid flag")]
             ELSE LsParse(Tail(a), [o EXCEPT !.paths = Append(@, arg)])

\* one of the nine permission characters: bit is the value of the mode bit
PermChar(mode, bit, c) == IF (mode \div bit) % 2 = 1 THEN c ELSE "-"

\* the number of links of an entry: one for a file; for a directory its own
\* name, its "." and the ".." of every directory in it
LinkCount(f, ap) ==
    IF IsFile(f, ap) THEN 1
    ELSE 2 + Cardinality({n \in Children(f, ap) : IsDir(f, Append(ap, n))})

\* getpwuid: the name of a uid, or its number when there is none
UserName(uid) == IF uid = 0 THEN <<"r", "o", "o", "t">>
                 ELSE IF uid = Getpwnam(UserU) THEN UserU
                 ELSE to_string(uid)

\* Commands::formatLsLongListing: the stat of ap under the name name
formatLsLongListing(f, name, ap) ==
    LET info == f[ap]
        size == IF info.type = "file" THEN Len(info.data) ELSE 0
    IN  <<(IF info.type = "dir" THEN "d" ELSE "-"),
          PermChar(info.mode, 256, "r"), PermChar(info.mode, 128, "w"),
          PermChar(info.mode, 64, "x"), PermChar(info.mode, 32, "r"),
          PermChar(info.mode, 16, "w"), PermChar(info.mode, 8, "x"),
          PermChar(info.mode, 4, "r"), PermChar(info.mode, 2, "w"),
          PermChar(info.mode, 1, "x")>>
        \o <<" ">> \o to_string(LinkCount(f, ap))
        \o <<" ">> \o UserName(info.owner)
        \o <<" ">> \o UserName(0)
        \o <<" ">> \o to_string(size)
        \o <<" ", "%b %d %H:%M">>
        \o <<" ">> \o name \o <<NL>>

\* the entry of directory ap that readdir gives under name
LsEntry(ap, name) ==
    IF name = NameDot THEN ap
    ELSE IF name = NameDotDot THEN (IF ap = Root THEN Root ELSE Parent(ap))
    ELSE Append(ap, name)

\* lsCommand up to the loop over the paths
LsBegin ==
    /\ cmd = "ls" /\ pc = "start"
    /\ LET p == LsParse(args, [showAll |-> FALSE, almostAll |-> FALSE,
                               longList |-> FALSE, paths |-> <<>>])
       IN  IF p.kind # "ok"
           THEN /\ result' = p.res
                /\ pc' = "done" /\ loc' = loc
           ELSE /\ loc' = [showAll |-> p.opts.showAll, almostAll |-> p.opts.almostAll,
                           longList |-> p.opts.longList,
                           paths |-> IF p.opts.paths = <<>> THEN <<NameDot>> ELSE p.opts.paths,
                           i |-> 1, out |-> <<>>, entries |-> {}]
                /\ pc' = "ls_path"
                /\ result' = result
    /\ UNCHANGED <<cmd, args, fs, cwd, log, fds, hist, env, term>>

\* the head of the loop over the paths: stat, the line of a file, or the
\* header and the opendir of a directory
LsPath ==
    /\ cmd = "ls" /\ pc = "ls_path"
    /\ IF loc.i > Len(loc.paths)
       THEN /\ result' = CommandResult(0, stripTrailingNewline(loc.out), "")
            /\ pc' = "done"
            /\ UNCHANGED <<loc, fds>>
       ELSE LET p == loc.paths[loc.i]
            IN  IF StatErrno(fs, p) # "ok"
                THEN /\ result' = CommandResult(1, <<>>, "ls: cannot access")
                     /\ pc' = "done"
                     /\ UNCHANGED <<loc, fds>>
                ELSE IF ~IsDir(fs, Resolve(p))
                THEN /\ loc' = [loc EXCEPT
                                  !.out = @ \o (IF loc.longList
                                                THEN formatLsLongListing(fs, p, Resolve(p))
                                                ELSE p \o <<NL>>),
                                  !.i = @ + 1]
                     /\ UNCHANGED <<result, pc, fds>>
                ELSE \E e \in OpendirErrnos(fs, p) :
                       IF e # "ok"
                       THEN /\ result' = CommandResult(1, <<>>, "ls: cannot open directory")
                            /\ pc' = "done"
                            /\ UNCHANGED <<loc, fds>>
                       ELSE /\ loc' = [loc EXCEPT
                                         !.out = IF Len(loc.paths) > 1
                                                 THEN @ \o p \o <<":", NL>> ELSE @,
                                         !.entries = Children(fs, Resolve(p))
                                                     \cup {NameDot, NameDotDot}]
                            /\ fds' = fds + 1
                            /\ pc' = "ls_readdir"
                            /\ result' = result
    /\ UNCHANGED <<cmd, args, fs, cwd, log, hist, env, term>>

\* the errnos with which stat can return on an entry readdir has just given:
\* the entry may be a link to nothing
EntryStatErrnos == {"ok", "ENOENT"}

\* one turn of the readdir loop: the entry is skipped, or listed
LsReaddir ==
    /\ cmd = "ls" /\ pc = "ls_readdir" /\ loc.entries # {}
    /\ \E name \in loc.entries :
         LET p    == loc.paths[loc.i]
             rest == [loc EXCEPT !.entries = @ \ {name}]
         IN  IF (~loc.showAll /\ ~loc.almostAll /\ name[1] = ".")
                \/ (loc.almostAll /\ name \in {NameDot, NameDotDot})
             THEN /\ loc' = rest
                  /\ UNCHANGED <<result, pc, fds>>
             ELSE IF loc.longList
             THEN \E e \in EntryStatErrnos :
                    IF e # "ok"
                    THEN /\ fds' = fds - 1
                         /\ result' = CommandResult(1, <<>>, "ls: cannot access")
                         /\ pc' = "done"
                         /\ loc' = loc
                    ELSE /\ loc' = [rest EXCEPT !.out = @ \o
                                       formatLsLongListing(fs, name, LsEntry(Resolve(p), name))]
                         /\ UNCHANGED <<result, pc, fds>>
             ELSE /\ loc' = [rest EXCEPT !.out = @ \o name \o <<" ">>]
                  /\ UNCHANGED <<result, pc, fds>>
    /\ UNCHANGED <<cmd, args, fs, cwd, log, hist, env, term>>

\* readdir returned nullptr: closedir and the next path
LsCloseDir ==
    /\ cmd = "ls" /\ pc = "ls_readdir" /\ loc.entries = {}
    /\ loc' = [loc EXCEPT !.i = @ + 1]
    /\ fds' = fds - 1
    /\ pc' = "ls_path"
    /\ UNCHANGED <<cmd, args, fs, cwd, result, log, hist, env, term>>

----------------------------------------------------------------------------
(* The interaction loop (main) and the dispatcher.                         *)

\* most lines one session reads
MaxShellLines == 2
\* most prompts one session prints
MaxPrompts == 4

\* the invocation the tokenizer and the parser make of a line: the first
\* word is the command name, the other words are the arguments
Invocation(name, arguments) == [name |-> name, arguments |-> arguments]

\* the line std::getline leaves empty: a blank line, or no line at all
EmptyLine == Invocation("", <<>>)

\* the command names the dispatcher knows
Handlers ==
    {"help", "echo", "pause", "ls", "dir", "cd", "rmdir", "touch", "cp", "chown",
     "grep", "quit", "clr", "pwd", "environ", "cat", "wc", "mkdir", "rm", "mv", "chmod"}

\* Commands::dirCommand hands its arguments to lsCommand
HandlerOf(name) == IF name = "dir" THEN "ls" ELSE name

\* a variant of HasSentinel that looks for the marker at the end of the output
HasSentinelAtEnd(output) ==
    Len(output) >= 9 /\ SubSeq(output, Len(output) - 8, Len(output)) = NoNlSentinel

\* result.output.rfind("__NO_NL__", 0) == 0: the output begins with the marker
HasSentinel(output) ==
    Len(output) >= 9 /\ SubSeq(output, 1, 9) = NoNlSentinel

\* what main writes for a result r: out to std::cout, err to std::cerr
Rendered(r) ==
    LET marked  == r.status = 0 /\ HasSentinel(r.output)
        output  == IF marked THEN SubSeq(r.output, 10, Len(r.output)) ELSE r.output
        printNewline ==
            \/ (r.status = 0 /\ r.output # <<>> /\ ~marked)
            \/ (r.status = 1 /\ r.error # "")
    IN  [out |-> (IF r.status = 0 THEN output ELSE <<>>)
                 \o (IF printNewline THEN <<NL>> ELSE <<>>),
         err |-> IF r.status = 1 /\ r.error # "" THEN <<r.error>> ELSE <<>>]

\* the top of the loop: the locals of the turn before are gone, the prompt
\* is printed
ShellPrompt ==
    /\ pc = "prompt" /\ term.prompts < MaxPrompts
    /\ term' = [term EXCEPT !.prompts = @ + 1, !.got = FALSE, !.out = <<>>, !.err = <<>>]
    /\ cmd' = "" /\ args' = <<>>
    /\ loc' = [none |-> TRUE]
    /\ result' = NoResult
    /\ log' = <<>>
    /\ hist' = <<>>
    /\ pc' = "getline"
    /\ UNCHANGED <<fs, cwd, fds, env>>

\* std::getline found stdin exhausted: input stays empty, and the loop goes
\* on to its next turn
ShellEndOfInput ==
    /\ pc = "getline"
    /\ term' = [term EXCEPT !.eof = TRUE]
    /\ pc' = "prompt"
    /\ UNCHANGED <<cmd, args, fs, cwd, loc, result, log, fds, hist, env>>

\* std::getline took a line: an empty one goes on to the next turn, any
\* other is handed to the dispatcher, which returns "command not found" or
\* calls the handler
ShellGetLine(input) ==
    /\ pc = "getline" /\ ~term.eof /\ term.lines < MaxShellLines
    /\ term' = [term EXCEPT !.lines = @ + 1, !.got = TRUE]
    /\ IF input = EmptyLine
       THEN /\ pc' = "prompt"
            /\ UNCHANGED <<cmd, args, result, hist>>
       ELSE /\ cmd' = HandlerOf(input.name)
            /\ args' = input.arguments
            /\ hist' = <<[fs |-> fs, cwd |-> cwd, fds |-> fds]>>
            /\ IF input.name \in Handlers
               THEN /\ pc' = "start"
                    /\ result' = result
               ELSE /\ pc' = "done"
                    /\ result' = CommandResult(1, <<>>, "command not found")
    /\ UNCHANGED <<fs, cwd, loc, log, fds, env>>

\* the end of the turn: the result is written, or the exception that left
\* the handler is reported
ShellRender ==
    /\ pc = "done"
    /\ term' = IF result.kind = "exception"
               THEN [term EXCEPT !.err = @ \o <<"Error: ", result.what, NL>>]
               ELSE [term EXCEPT !.out = @ \o Rendered(result).out,
                                 !.err = @ \o Rendered(result).err]
    /\ pc' = "prompt"
    /\ UNCHANGED <<cmd, args, fs, cwd, loc, result, log, fds, hist, env>>

\* the filesystem a session starts in: files f and g, directory d (a mount
\* point) holding file x and the empty directory s
ShellFs ==
    MultiFs(<<"a", NL, "b">>, (<<NameX>> :> FileNode(<<"x">>)) @@ (<<NameS>> :> DirNode))

PathD == <<"/", "d">>
PathDS == <<"d", "/", "s">>
Tilde == <<"~">>

\* the lines a session is drawn from
InvocationSet ==
    {Invocation("grep", <<PatA, NameF>>),
     Invocation("grep", <<NameZ, NameF>>),
     Invocation("grep", <<TokC, NameZ, NameF>>),
     Invocation("grep", <<TokM, NameX, PatA, NameF>>),
     Invocation("wc", <<NameF>>),
     Invocation("mkdir", <<TokP, PathHG>>),
     Invocation("rmdir", <<TokP, PathDS>>),
     Invocation("mv", <<NameF, PathDG>>),
     Invocation("chmod", <<<<"7", "5", "5">>, NameF>>),
     Invocation("chown", <<UserU, NameF>>),
     Invocation("cp", <<NameF, NameG>>),
     Invocation("rm", <<TokR, NameD>>),
     Invocation("help", <<>>),
     Invocation("echo", <<NameX, NameY>>),
     Invocation("echo", <<NoNlSentinel \o NameX>>),
     Invocation("echo", <<>>),
     Invocation("pause", <<>>),
     Invocation("clr", <<>>),
     Invocation("clr", <<NameX>>),
     Invocation("pwd", <<>>),
     Invocation("environ", <<>>),
     Invocation("quit", <<>>),
     Invocation("quit", <<NameX>>),
     Invocation("touch", <<NameH>>),
     Invocation("touch", <<NameF>>),
     Invocation("cd", <<>>),
     Invocation("cd", <<NameD>>),
     Invocation("cd", <<NameH>>),
     Invocation("cd", <<Tilde>>),
     Invocation("cd", <<NameD, NameD>>),
     Invocation("cat", <<NameF, NameG>>),
     Invocation("cat", <<NameD>>),
     Invocation("ls", <<>>),
     Invocation("ls", <<TokL, NameD, NameF>>),
     Invocation("dir", <<TokA>>),
     Invocation("nope", <<>>),
     EmptyLine}

ShellInit ==
    /\ cmd = ""
    /\ args = <<>>
    /\ fs = ShellFs
    /\ cwd = Root
    /\ pc = "prompt"
    /\ loc = [none |-> TRUE]
    /\ result = NoResult
    /\ log = <<>>
    /\ fds = 0
    /\ hist = <<>>
    /\ env \in {[HOME |-> HomeSet(PathD)], [HOME |-> HomeUnset]}
    /\ term = NoTerminal

\* the handlers, one step of any of them
HandlerNext ==
    \/ GrepBegin \/ GrepOpen \/ GrepRead \/ GrepEndOfFile
    \/ WcBegin \/ WcFile \/ WcRead \/ WcEndOfFile
    \/ MkdirBegin \/ MkdirPath \/ MkdirChar
    \/ RmdirBegin \/ RmdirPStep
    \/ MvBegin \/ MvCopy \/ MvFinish
    \/ ChmodRun
    \/ ChownBegin \/ ChownFile
    \/ CpBegin \/ CpSource \/ CpCopy \/ CpEndOfFile
    \/ RmBegin \/ RmOperand \/ RmReaddir \/ RmCloseDir
    \/ HelpRun \/ EchoRun \/ PauseRun \/ ClrRun \/ PwdRun \/ EnvironRun \/ QuitRun
    \/ TouchRun \/ CdRun
    \/ CatBegin \/ CatFile \/ CatRead \/ CatEndOfFile
    \/ LsBegin \/ LsPath \/ LsReaddir \/ LsCloseDir

ShellNext ==
    \/ ShellPrompt
    \/ ShellEndOfInput
    \/ \E input \in InvocationSet : ShellGetLine(input)
    \/ ShellRender
    \/ HandlerNext

SpecShell == ShellInit /\ [][ShellNext]_vars

----------------------------------------------------------------------------
(* Every handler, called once.                                             *)

\* one call of a handler, on a line of InvocationSet
InvocationInit ==
    /\ \E input \in InvocationSet :
          /\ input.name \in Handlers
          /\ cmd = HandlerOf(input.name)
          /\ args = input.arguments
    /\ fs = ShellFs
    /\ cwd = Root
    /\ pc = "start"
    /\ loc = [none |-> TRUE]
    /\ result = NoResult
    /\ log = <<>>
    /\ fds = 0
    /\ hist = <<[fs |-> fs]>>
    /\ env \in {[HOME |-> HomeSet(PathD)], [HOME |-> HomeUnset]}
    /\ term = NoTerminal

\* one call of any handler, on the arguments and the filesystems of its own
\* specification or on a line of InvocationSet
HandlersInit ==
    \/ GrepInit \/ WcInit \/ MkdirInit \/ RmdirInit \/ MvInit \/ ChmodInit
    \/ MultiInit \/ InvocationInit

SpecHandlers == HandlersInit /\ [][HandlerNext]_vars

----------------------------------------------------------------------------
(* Properties of the results.                                              *)

\* grepCommand went through its files, found no matching line, and count
\* mode is off
GrepFoundNothing ==
    /\ cmd = "grep"
    /\ "totalMatches" \in DOMAIN loc
    /\ loc.totalMatches = 0
    /\ ~loc.opts.opt_c

\* C11: every CommandResult a handler returns has status 0 or 1; status 0
\* comes with an empty error and status 1 with an empty output, so output and
\* error are never both non-empty; and a status-1 result has a non-empty
\* error unless it is grep finding no match with count mode off.
C11_ResultShape ==
    Returned =>
        /\ result.status \in {0, 1}
        /\ result.status = 0 => result.error = ""
        /\ result.status = 1 => result.output = <<>>
        /\ (result.status = 1 /\ result.error = "") => GrepFoundNothing

\* C11 witness: grep went through a file without a match and returned
\* status 1 with neither output nor error
C11_Witness ==
    /\ cmd = "grep" /\ pc = "done"
    /\ Returned /\ result.status = 1
    /\ result.output = <<>> /\ result.error = ""
    /\ GrepFoundNothing
    /\ loc.i > Len(args)

----------------------------------------------------------------------------
(* Properties of the interaction loop.                                     *)

\* s begins with prefix
StartsWith(s, prefix) ==
    Len(s) >= Len(prefix) /\ SubSeq(s, 1, Len(prefix)) = prefix

\* the loop has written the result of the handler and is about to prompt
ResultRendered == pc = "prompt" /\ Returned

----------------------------------------------------------------------------
(* Properties of cp, rm and mkdir.                                         *)

\* cp is called with two sources or more and a last argument that does not
\* name a directory
CpManyToNonDirectory ==
    /\ cmd = "cp" /\ Len(args) >= 3
    /\ ~IsDir(hist[1].fs, Resolve(args[Len(args)]))

\* C13: cp with two or more sources and a destination that is not an
\* existing directory returns status 1 with the "not a directory" error, and
\* at no point of the call is a file opened, created, truncated or written:
\* no descriptor is taken, no call is made, the filesystem stays as it was.
C13_CpNotADirectory ==
    CpManyToNonDirectory =>
        /\ fds = 0
        /\ log = <<>>
        /\ fs = hist[1].fs
        /\ pc = "done" =>
              /\ Returned /\ result.status = 1
              /\ result.error = "cp: target is not a directory"

\* C13 witness: cp g f f, whose destination is an existing file, has
\* returned
C13_Witness ==
    /\ CpManyToNonDirectory
    /\ Len(args) = 3
    /\ IsFile(hist[1].fs, Resolve(args[3]))
    /\ pc = "done" /\ Returned /\ result.status = 1

\* rm is called with a recursive flag and operands
RmRecursiveCase ==
    /\ cmd = "rm"
    /\ RmParse(args).kind = "ok"
    /\ RmParse(args).recursive

\* the operands of rm: the arguments after its flags
RmOperands == {args[k] : k \in RmParse(args).currentArg..Len(args)}

\* nothing is found at ap or beneath it
Gone(f, ap) == \A q \in DOMAIN f : ~Under(q, ap)

\* ap is a directory with nothing but directories beneath it
OnlyDirectories(f, ap) ==
    /\ IsDir(f, ap)
    /\ \A q \in DOMAIN f : Under(q, ap) => IsDir(f, q)

\* no opendir of the call was refused
EveryDirectoryOpened == \A j \in 1..Len(log) : log[j].op = "opendir" => log[j].err = "ok"

\* C14: whenever rm with the recursive flag returns status 0, each operand
\* and everything that was beneath it is gone; and rm -r D on a directory D
\* with nothing but (possibly nested) empty directories beneath it, each of
\* which can be opened, returns status 0.
C14_RmRecursiveRemovesTree ==
    (RmRecursiveCase /\ pc = "done" /\ Returned) =>
        /\ result.status = 0 => \A p \in RmOperands : Gone(fs, Resolve(p))
        /\ (/\ Len(args) = 2
            /\ OnlyDirectories(hist[1].fs, Resolve(args[2]))
            /\ EveryDirectoryOpened) => result.status = 0

\* C14 witness: rm -r d has returned status 0 on a directory d that held a
\* directory holding a directory, and nothing of it remains
C14_Witness ==
    /\ RmRecursiveCase /\ pc = "done" /\ Returned
    /\ result.status = 0
    /\ args = <<TokR, NameD>>
    /\ OnlyDirectories(hist[1].fs, <<NameD>>)
    /\ IsDir(hist[1].fs, <<NameD, NameS, NameZ>>)
    /\ Gone(fs, <<NameD>>)

----------------------------------------------------------------------------
(* Properties of a session.                                                *)

\* a handler was called in this turn of the loop
InInvocation == Len(hist) = 1

\* the working directory changes only in a step in which cd returns status 0
CwdChangesOnlyByCd ==
    cwd' # cwd => (cmd = "cd" /\ result'.kind = "result" /\ result'.status = 0)

\* the working directory is not what it was when the handler was called
\* only after cd returned status 0, and cd with two arguments or more
\* returns status 1
CwdKept ==
    /\ (InInvocation /\ cwd # hist[1].cwd) =>
          (cmd = "cd" /\ Returned /\ result.status = 0)
    /\ (InInvocation /\ cmd = "cd" /\ Len(args) >= 2 /\ pc = "done") =>
          (Returned /\ result.status = 1 /\ cwd = hist[1].cwd)

\* C15 as claimed: over a session the working directory changes only by a
\* cd that returns status 0; every other command, and every cd that returns
\* status 1 (cd with two arguments or more is one), leaves it as it was and
\* does not end the process.
C15_CwdOnlyByCd ==
    /\ [][CwdChangesOnlyByCd]_vars
    /\ [](CwdKept /\ (pc \in {"exited", "crashed"} => cmd = "cd"))

\* C15 as amended: the same, except that quit without arguments ends the
\* process, and nothing else does but a cd that returns no status at all:
\* cd on a path that begins with '~' while HOME is not set.
C15_CwdOnlyByCdAmended ==
    /\ [][CwdChangesOnlyByCd]_vars
    /\ [](/\ CwdKept
          /\ pc = "exited" => (cmd = "quit" /\ args = <<>>)
          /\ pc = "crashed" => (cmd = "cd" /\ args[1][1] = "~" /\ ~env.HOME.set))

\* C15 witness: after a cd that changed the working directory to d, cd with
\* two arguments has returned status 1 and the working directory is still d
C15_Witness ==
    /\ InInvocation /\ pc = "done"
    /\ cmd = "cd" /\ Len(args) = 2
    /\ Returned /\ result.status = 1
    /\ term.lines = 2
    /\ hist[1].cwd = <<NameD>>
    /\ cwd = <<NameD>>

\* C16 as claimed: every descriptor and directory stream a handler opens is
\* closed before the handler returns, on every return path, error returns
\* included: when a handler has returned, as many descriptors are open as
\* when it was called.
C16_DescriptorsClosed ==
    (InInvocation /\ pc = "done" /\ Returned) => fds = hist[1].fds

\* the source operands of a cp invocation, and where operand k is copied to
CpSources == 1..(Len(args) - 1)

CpDestOf(k) ==
    CpFinalDest(args[Len(args)], IsDir(hist[1].fs, Resolve(args[Len(args)])), args[k])

\* C17 as claimed: cp never changes the content of a source file: after any
\* cp invocation every source operand holds the bytes it held before, and
\* when cp returns status 0 every destination file holds the bytes its
\* source held before the command, also when the destination resolves to
\* the source itself (cp a a, cp d/a d).
C17_CpKeepsSource ==
    (cmd = "cp" /\ pc = "done" /\ Returned /\ Len(args) >= 2) =>
        \A k \in CpSources :
            IsFile(hist[1].fs, Resolve(args[k])) =>
                /\ IsFile(fs, Resolve(args[k]))
                /\ fs[Resolve(args[k])].data = hist[1].fs[Resolve(args[k])].data
                /\ result.status = 0 =>
                      /\ IsFile(fs, Resolve(CpDestOf(k)))
                      /\ fs[Resolve(CpDestOf(k))].data = hist[1].fs[Resolve(args[k])].data

\* mkdir -p has returned status 0
MkdirPSucceeded ==
    /\ cmd = "mkdir" /\ pc = "done" /\ Returned /\ result.status = 0
    /\ Len(args) >= 2 /\ args[1] = TokP

\* C18 as claimed: whenever mkdir -p P returns status 0, every path
\* component of P, P itself included, exists as a directory afterwards; an
\* entry that exists already is tolerated only when it is a directory, so P
\* naming an existing regular file does not yield status 0.
C18_MkdirPMakesDirectories ==
    MkdirPSucceeded =>
        \A i \in 2..Len(args) :
            \A k \in 1..Len(Resolve(args[i])) :
                IsDir(fs, SubSeq(Resolve(args[i]), 1, k))

\* C19 as claimed: in the loop every prompt is followed by the consumption
\* of one line of input before the next prompt is printed: whenever the loop
\* is about to print a prompt after an earlier one, a line was taken since
\* that earlier prompt. In particular the loop does not print prompt after
\* prompt once standard input is exhausted.
C19_OneLinePerPrompt ==
    (pc = "prompt" /\ term.prompts > 0) => term.got

====
